---- MODULE Spec2Model ----
(***************************************************************************)
(* Workflow-state tracking of the deep-plan plugin: the SECTION_MANIFEST   *)
(* parser and the section-progress state derivation of                     *)
(* scripts/lib/sections.py.                                                *)
(*                                                                         *)
(* Text is modelled as a sequence of characters, each a one-token string;  *)
(* the literal "section-" is one token.  index.md is a sequence of lines.  *)
(* A marker stands on a line of its own, so the text between the markers   *)
(* is the lines between the two marker lines.                              *)
(***************************************************************************)
EXTENDS Integers, Sequences, FiniteSets, TLC

VARIABLES
    content,        \* text handed to parse_manifest_block
    parsed,         \* the dict parse_manifest_block returned for content
    pdone,          \* TRUE once parse_manifest_block has returned
    sectionsKind,   \* planning_dir/sections: "absent", "file" or "dir"
    indexExists,    \* sections/index.md exists
    indexText,      \* text of sections/index.md (<<>> while it does not exist)
    files,          \* stems of the *.md files in sections/ other than index.md
    progress,       \* outcome of the last check_section_progress call
    ran,            \* TRUE when progress is the outcome for the filesystem as it is
    artifacts,      \* the claude-*.md files and reviews/*.md names in planning_dir
    inferred,       \* what the last scan and infer_resume_step of the session setup gave
    todoIn,         \* the arguments handed to the TODO generators
    todoOut,        \* the lists the TODO generators returned
    sessionConfig,  \* the session config stored for planning_dir
    genOut,         \* exit code and JSON of the last generate-section-todos.py run
    specFile,       \* the path given as --file: "missing", "dir", "empty" or "ok"
    setupOut        \* exit code and JSON of the last setup-planning-session.py run

vars == <<content, parsed, pdone, sectionsKind, indexExists, indexText, files,
          progress, ran, artifacts, inferred, todoIn, todoOut, sessionConfig, genOut,
          specFile, setupOut>>

parseVars == <<content, parsed, pdone>>
fsVars == <<sectionsKind, indexExists, indexText, files>>
outVars == <<progress, ran>>
planVars == <<artifacts, inferred, todoIn, todoOut, sessionConfig, genOut, specFile, setupOut>>

----------------------------------------------------------------------------
(* Bounds *)

\* longest index.md text, in lines
MaxLines == 5

\* highest current_step handed to generate_todos
MaxStep == 23

\* longest all_sections and completed_sections handed to generate_section_todo_items
MaxSections == 2
MaxCompleted == 2

----------------------------------------------------------------------------
(* Characters and lines *)

Digits == {"0", "1", "2", "3", "4", "5", "6", "7", "8", "9"}

\* int() of one decimal digit
DigitVal(c) ==
    CASE c = "0" -> 0 [] c = "1" -> 1 [] c = "2" -> 2 [] c = "3" -> 3
      [] c = "4" -> 4 [] c = "5" -> 5 [] c = "6" -> 6 [] c = "7" -> 7
      [] c = "8" -> 8 [] c = "9" -> 9

\* int() of a run of decimal digits
RECURSIVE IntOf(_)
IntOf(ds) ==
    IF ds = <<>> THEN 0
    ELSE 10 * IntOf(SubSeq(ds, 1, Len(ds) - 1)) + DigitVal(ds[Len(ds)])

\* the characters of [a-zA-Z0-9_-] that occur in the model's texts
NameChars == Digits \cup {"a", "b", "z", "x", "_", "-", "section-"}

Whitespace == {" "}

MANIFEST_START == <<"<!-- SECTION_MANIFEST">>
MANIFEST_END == <<"END_MANIFEST -->">>

\* str.strip()
RECURSIVE Strip(_)
Strip(s) ==
    IF s = <<>> THEN s
    ELSE IF s[1] \in Whitespace THEN Strip(Tail(s))
    ELSE IF s[Len(s)] \in Whitespace THEN Strip(SubSeq(s, 1, Len(s) - 1))
    ELSE s

\* SECTION_NAME_PATTERN.match(line) is not None
MatchesSectionName(line) ==
    /\ Len(line) >= 5
    /\ line[1] = "section-"
    /\ line[2] \in Digits
    /\ line[3] \in Digits
    /\ line[4] = "-"
    /\ \A i \in 5..Len(line) : line[i] \in NameChars

\* match.group(1): the two digits, as text
SectionNumText(line) == SubSeq(line, 2, 3)

\* the sort key int(SECTION_NAME_PATTERN.match(x).group(1))
SectionKey(line) == IntOf(SectionNumText(line))

----------------------------------------------------------------------------
(* parse_manifest_block *)

\* Error messages: the fixed text of the message and the values formatted into it
ErrorMsg(msg, line_num, line, num) ==
    [msg |-> msg, line_num |-> line_num, line |-> line, num |-> num]

\* error: None
NoError == ErrorMsg("None", 0, <<>>, <<>>)

ErrNoBlock == ErrorMsg("No SECTION_MANIFEST block found in index.md", 0, <<>>, <<>>)
ErrNotClosed == ErrorMsg("SECTION_MANIFEST block not closed", 0, <<>>, <<>>)
ErrEmpty == ErrorMsg("SECTION_MANIFEST block is empty", 0, <<>>, <<>>)
ErrInvalidName(line_num, line) == ErrorMsg("Invalid section name", line_num, line, <<>>)
ErrDuplicate(line_num, line, num) == ErrorMsg("Duplicate section number", line_num, line, num)
ErrNoValid == ErrorMsg("No valid sections found in SECTION_MANIFEST block", 0, <<>>, <<>>)

\* the dict returned on a failure
Failure(error) ==
    [success |-> FALSE, sections |-> <<>>, error |-> error, warnings |-> <<>>]

\* str.find(marker, from) over the lines of the text: 0 stands for -1
Find(text, marker, from) ==
    LET hits == {i \in from..Len(text) : text[i] = marker}
    IN  IF hits = {} THEN 0 ELSE CHOOSE i \in hits : \A j \in hits : i <= j

\* content.find(MANIFEST_START)
FindStart(text) == Find(text, MANIFEST_START, 1)

\* content.find(MANIFEST_END) with the start position left out
FindEndFromTop(text, start_idx) == Find(text, MANIFEST_END, 1)

\* content.find(MANIFEST_END, start_idx)
FindEnd(text, start_idx) == Find(text, MANIFEST_END, start_idx)

\* str.strip() of the text between the markers: blank lines at either end go
RECURSIVE TrimBlock(_)
TrimBlock(lines) ==
    IF lines = <<>> THEN lines
    ELSE IF Strip(lines[1]) = <<>> THEN TrimBlock(Tail(lines))
    ELSE IF Strip(lines[Len(lines)]) = <<>>
         THEN TrimBlock(SubSeq(lines, 1, Len(lines) - 1))
    ELSE lines

\* content[block_start:end_idx].strip()
BlockContent(text, start_idx, end_idx) ==
    TrimBlock(SubSeq(text, start_idx + 1, end_idx - 1))

\* the loop over the lines with the duplicate test left out
RECURSIVE ParseLinesNoDupCheck(_, _, _, _)
ParseLinesNoDupCheck(block, line_num, sections, seen_numbers) ==
    IF line_num > Len(block)
    THEN [success |-> TRUE, sections |-> sections, error |-> NoError, warnings |-> <<>>]
    ELSE LET line == Strip(block[line_num])
         IN  IF line = <<>>
             THEN ParseLinesNoDupCheck(block, line_num + 1, sections, seen_numbers)
             ELSE IF ~MatchesSectionName(line)
             THEN Failure(ErrInvalidName(line_num, line))
             ELSE ParseLinesNoDupCheck(block, line_num + 1, Append(sections, line),
                                       seen_numbers)

\* the loop over the lines counting them from 0
RECURSIVE ParseLinesFromZero(_, _, _, _)
ParseLinesFromZero(block, line_num, sections, seen_numbers) ==
    IF line_num > Len(block)
    THEN [success |-> TRUE, sections |-> sections, error |-> NoError, warnings |-> <<>>]
    ELSE LET line == Strip(block[line_num])
         IN  IF line = <<>>
             THEN ParseLinesFromZero(block, line_num + 1, sections, seen_numbers)
             ELSE IF ~MatchesSectionName(line)
             THEN Failure(ErrInvalidName(line_num - 1, line))
             ELSE IF SectionNumText(line) \in seen_numbers
             THEN Failure(ErrDuplicate(line_num - 1, line, SectionNumText(line)))
             ELSE ParseLinesFromZero(block, line_num + 1, Append(sections, line),
                                     seen_numbers \cup {SectionNumText(line)})

\* the loop returning, on a failure, the sections accepted so far instead of []
RECURSIVE ParseLinesKeepSections(_, _, _, _)
ParseLinesKeepSections(block, line_num, sections, seen_numbers) ==
    IF line_num > Len(block)
    THEN [success |-> TRUE, sections |-> sections, error |-> NoError, warnings |-> <<>>]
    ELSE LET line == Strip(block[line_num])
         IN  IF line = <<>>
             THEN ParseLinesKeepSections(block, line_num + 1, sections, seen_numbers)
             ELSE IF ~MatchesSectionName(line)
             THEN [Failure(ErrInvalidName(line_num, line)) EXCEPT !.sections = sections]
             ELSE IF SectionNumText(line) \in seen_numbers
             THEN [Failure(ErrDuplicate(line_num, line, SectionNumText(line)))
                       EXCEPT !.sections = sections]
             ELSE ParseLinesKeepSections(block, line_num + 1, Append(sections, line),
                                         seen_numbers \cup {SectionNumText(line)})

\* for line_num, line in enumerate(block_content.split('\n'), start=1): ...
\* returns at the first line that fails
RECURSIVE ParseLines(_, _, _, _)
ParseLines(block, line_num, sections, seen_numbers) ==
    IF line_num > Len(block)
    THEN [success |-> TRUE, sections |-> sections, error |-> NoError, warnings |-> <<>>]
    ELSE LET line == Strip(block[line_num])
         IN  IF line = <<>>
             THEN ParseLines(block, line_num + 1, sections, seen_numbers)
             ELSE IF ~MatchesSectionName(line)
             THEN Failure(ErrInvalidName(line_num, line))
             ELSE IF SectionNumText(line) \in seen_numbers
             THEN Failure(ErrDuplicate(line_num, line, SectionNumText(line)))
             ELSE ParseLines(block, line_num + 1, Append(sections, line),
                             seen_numbers \cup {SectionNumText(line)})

\* list.sort(key=...), a stable sort: insertion of x after the elements whose key is <= its own
RECURSIVE InsertByKey(_, _)
InsertByKey(sorted, x) ==
    IF sorted = <<>> THEN <<x>>
    ELSE IF SectionKey(sorted[Len(sorted)]) <= SectionKey(x) THEN Append(sorted, x)
    ELSE Append(InsertByKey(SubSeq(sorted, 1, Len(sorted) - 1), x), sorted[Len(sorted)])

RECURSIVE SortFrom(_, _)
SortFrom(sorted, rest) ==
    IF rest = <<>> THEN sorted ELSE SortFrom(InsertByKey(sorted, Head(rest)), Tail(rest))

\* the sort left out: the accepted lines in input order
SortSectionsInputOrder(sections) == sections

\* sections.sort(key=lambda x: int(SECTION_NAME_PATTERN.match(x).group(1)))
SortSections(sections) == SortFrom(<<>>, sections)

\* a warning: the two numbers the message names
GapWarning(expected_num, actual_num) == [expected |-> expected_num, found |-> actual_num]

\* the gap loop with expected_num advanced by one instead of set from actual_num
RECURSIVE GapWarningsCounting(_, _)
GapWarningsCounting(sections, expected_num) ==
    IF sections = <<>> THEN <<>>
    ELSE LET actual_num == SectionKey(Head(sections))
             rest == GapWarningsCounting(Tail(sections), expected_num + 1)
         IN  IF actual_num # expected_num
             THEN <<GapWarning(expected_num, actual_num)>> \o rest
             ELSE rest

\* expected_num = 1; for section in sections: ... expected_num = actual_num + 1
RECURSIVE GapWarnings(_, _)
GapWarnings(sections, expected_num) ==
    IF sections = <<>> THEN <<>>
    ELSE LET actual_num == SectionKey(Head(sections))
             rest == GapWarnings(Tail(sections), actual_num + 1)
         IN  IF actual_num # expected_num
             THEN <<GapWarning(expected_num, actual_num)>> \o rest
             ELSE rest

parse_manifest_block(text) ==
    LET start_idx == FindStart(text)
        end_idx == FindEnd(text, start_idx)
        block_content == BlockContent(text, start_idx, end_idx)
        looped == ParseLines(block_content, 1, <<>>, {})
        sections == SortSections(looped.sections)
    IN  IF start_idx = 0 THEN Failure(ErrNoBlock)
        ELSE IF end_idx = 0 THEN Failure(ErrNotClosed)
        ELSE IF block_content = <<>> THEN Failure(ErrEmpty)
        ELSE IF ~looped.success THEN looped
        ELSE IF looped.sections = <<>> THEN Failure(ErrNoValid)
        ELSE [success |-> TRUE, sections |-> sections, error |-> NoError,
              warnings |-> GapWarnings(sections, 1)]

----------------------------------------------------------------------------
(* check_index_format, get_completed_sections, check_section_progress *)

ErrIndexMissing == ErrorMsg("index.md does not exist", 0, <<>>, <<>>)
ErrMissingBlock == ErrorMsg("index.md is missing SECTION_MANIFEST block", 0, <<>>, <<>>)

IndexFormat(exists, has_manifest, manifest_valid, sections, error, warnings) ==
    [exists |-> exists, has_manifest |-> has_manifest, manifest_valid |-> manifest_valid,
     sections |-> sections, error |-> error, warnings |-> warnings]

\* check_index_format(index_path), index.md existing with the given text or not
check_index_format(exists, text) ==
    LET has_manifest == \E i \in 1..Len(text) : text[i] = MANIFEST_START
        result == parse_manifest_block(text)
    IN  IF ~exists
        THEN IndexFormat(FALSE, FALSE, FALSE, <<>>, ErrIndexMissing, <<>>)
        ELSE IF ~has_manifest
        THEN IndexFormat(TRUE, FALSE, FALSE, <<>>, ErrMissingBlock, <<>>)
        ELSE IndexFormat(TRUE, TRUE, result.success, result.sections, result.error,
                         result.warnings)

\* the index_format check_section_progress builds itself when index.md is absent
DefaultIndexFormat == IndexFormat(FALSE, FALSE, FALSE, <<>>, NoError, <<>>)

\* the glob widened to "*.md"
GlobAllMarkdown(stems) == stems

\* sections_dir.glob("section-*.md"): the stems, of the files the glob matches
GlobSectionFiles(stems) == {f \in stems : Len(f) >= 1 /\ f[1] = "section-"}

\* re.search(r'section-(\d+)', x): where the first match starts, 0 for None
SearchSectionDigits(x) ==
    LET hits == {i \in 1..(Len(x) - 1) : x[i] = "section-" /\ x[i + 1] \in Digits}
    IN  IF hits = {} THEN 0 ELSE CHOOSE i \in hits : \A j \in hits : i <= j

\* .group(1): the longest run of digits from position i
RECURSIVE DigitRun(_, _)
DigitRun(x, i) ==
    IF i > Len(x) \/ x[i] \notin Digits THEN <<>> ELSE <<x[i]>> \o DigitRun(x, i + 1)

\* the sort key int(re.search(r'section-(\d+)', x).group(1)); defined when the search matches
CompletedKey(x) == IntOf(DigitRun(x, SearchSectionDigits(x) + 1))

RECURSIVE InsertCompleted(_, _)
InsertCompleted(sorted, x) ==
    IF sorted = <<>> THEN <<x>>
    ELSE IF CompletedKey(sorted[Len(sorted)]) <= CompletedKey(x) THEN Append(sorted, x)
    ELSE Append(InsertCompleted(SubSeq(sorted, 1, Len(sorted) - 1), x), sorted[Len(sorted)])

RECURSIVE SortCompleted(_, _)
SortCompleted(sorted, rest) ==
    IF rest = <<>> THEN sorted
    ELSE SortCompleted(InsertCompleted(sorted, Head(rest)), Tail(rest))

\* the orders in which the glob may yield the files
Listings(stems) ==
    {l \in [1..Cardinality(stems) -> stems] : \A f \in stems : \E i \in DOMAIN l : l[i] = f}

\* completed.sort(key=...) raises AttributeError when the search finds no digits in a stem
SortRaises(listing) == \E i \in DOMAIN listing : SearchSectionDigits(listing[i]) = 0

\* get_completed_sections(sections_dir), the directory existing, the glob yielding listing
get_completed_sections(listing) == SortCompleted(<<>>, listing)

\* the members of s, in order, that are not in drop
RECURSIVE Filter(_, _)
Filter(s, drop) ==
    IF s = <<>> THEN <<>>
    ELSE IF Head(s) \in drop THEN Filter(Tail(s), drop)
    ELSE <<Head(s)>> \o Filter(Tail(s), drop)

\* missing_sections computed against the first completed section only
MissingSectionsAfterFirst(defined_sections, completed_sections) ==
    Filter(defined_sections,
           IF completed_sections = <<>> THEN {} ELSE {completed_sections[1]})

\* missing_sections = [s for s in defined_sections if s not in completed_set]
MissingSections(defined_sections, completed_sections) ==
    Filter(defined_sections, {completed_sections[i] : i \in DOMAIN completed_sections})

\* the chain comparing the two lengths instead of looking at missing_sections
DetermineStateByCount(sections_dir_exists, index_exists, manifest_valid, defined_sections, completed_sections, missing_sections) ==
    IF ~sections_dir_exists \/ (~index_exists /\ completed_sections = <<>>) THEN "fresh"
    ELSE IF index_exists /\ ~manifest_valid THEN "invalid_index"
    ELSE IF index_exists /\ completed_sections = <<>> THEN "has_index"
    ELSE IF index_exists /\ Len(completed_sections) < Len(defined_sections) THEN "partial"
    ELSE IF index_exists /\ defined_sections # <<>> THEN "complete"
    ELSE "fresh"

\* the chain with the has_index test ahead of the invalid_index test
DetermineStateHasIndexFirst(sections_dir_exists, index_exists, manifest_valid, defined_sections, completed_sections, missing_sections) ==
    IF ~sections_dir_exists \/ (~index_exists /\ completed_sections = <<>>) THEN "fresh"
    ELSE IF index_exists /\ completed_sections = <<>> THEN "has_index"
    ELSE IF index_exists /\ ~manifest_valid THEN "invalid_index"
    ELSE IF index_exists /\ missing_sections # <<>> THEN "partial"
    ELSE IF index_exists /\ missing_sections = <<>> /\ defined_sections # <<>> THEN "complete"
    ELSE "fresh"

\* the if/elif chain that sets state
DetermineState(sections_dir_exists, index_exists, manifest_valid, defined_sections, completed_sections, missing_sections) ==
    IF ~sections_dir_exists \/ (~index_exists /\ completed_sections = <<>>) THEN "fresh"
    ELSE IF index_exists /\ ~manifest_valid THEN "invalid_index"
    ELSE IF index_exists /\ completed_sections = <<>> THEN "has_index"
    ELSE IF index_exists /\ missing_sections # <<>> THEN "partial"
    ELSE IF index_exists /\ missing_sections = <<>> /\ defined_sections # <<>> THEN "complete"
    ELSE "fresh"

\* next_section taken from the end of missing_sections
NextSectionLast(missing_sections) ==
    IF missing_sections # <<>> THEN missing_sections[Len(missing_sections)] ELSE <<>>

\* next_section: the first missing section; <<>> stands for None
NextSection(missing_sections) ==
    IF missing_sections # <<>> THEN missing_sections[1] ELSE <<>>

\* progress = f"{done}/{total}" if total > 0 else "0/0": the two numbers of the string
ProgressString(done, total) == IF total > 0 THEN <<done, total>> ELSE <<0, 0>>

\* what a call left behind: the dict returned, or the exception raised
Outcome(raised, state, index_exists, defined_sections, completed_sections, missing_sections, next_section, progress_str, index_format) ==
    [raised |-> raised, state |-> state, index_exists |-> index_exists,
     defined_sections |-> defined_sections, completed_sections |-> completed_sections,
     missing_sections |-> missing_sections, next_section |-> next_section,
     progress |-> progress_str, index_format |-> index_format]

\* no call has returned
NoOutcome == Outcome(FALSE, "", FALSE, <<>>, <<>>, <<>>, <<>>, <<0, 0>>, DefaultIndexFormat)

\* the call ended in an uncaught AttributeError: no dict is returned
Raised == Outcome(TRUE, "", FALSE, <<>>, <<>>, <<>>, <<>>, <<0, 0>>, DefaultIndexFormat)

\* check_section_progress(planning_dir) on the filesystem given, the glob yielding listing
check_section_progress(kind, idxExists, idxText, listing) ==
    LET sections_dir_exists == kind = "dir"
        index_exists == idxExists
        index_format == IF index_exists THEN check_index_format(TRUE, idxText)
                        ELSE DefaultIndexFormat
        defined_sections == index_format.sections
        completed_sections == IF sections_dir_exists THEN get_completed_sections(listing)
                              ELSE <<>>
        missing_sections == MissingSections(defined_sections, completed_sections)
        state == DetermineState(sections_dir_exists, index_exists,
                                index_format.manifest_valid, defined_sections,
                                completed_sections, missing_sections)
    IN  IF sections_dir_exists /\ SortRaises(listing) THEN Raised
        ELSE Outcome(FALSE, state, index_exists, defined_sections, completed_sections,
                     missing_sections, NextSection(missing_sections),
                     ProgressString(Len(completed_sections), Len(defined_sections)),
                     index_format)

----------------------------------------------------------------------------
(* scan_planning_files and infer_resume_step of setup-planning-session.py *)

\* the files dict scan_planning_files returns
FilesFound(research, interview, spec, plan, integration_notes, plan_tdd, reviews, sections, sections_index) ==
    [research |-> research, interview |-> interview, spec |-> spec, plan |-> plan,
     integration_notes |-> integration_notes, plan_tdd |-> plan_tdd,
     reviews |-> reviews, sections |-> sections, sections_index |-> sections_index]

\* scan_planning_files(planning_dir): art holds the existence of the claude-*.md files
\* and the names reviews/*.md globs, listing is what sections/section-*.md globs
scan_planning_files(art, kind, idxExists, listing) ==
    LET sections_dir_exists == kind # "absent"
    IN  FilesFound(art.research, art.interview, art.spec, art.plan,
                   art.integration_notes, art.plan_tdd, art.reviews,
                   IF sections_dir_exists THEN listing ELSE <<>>,
                   IF sections_dir_exists THEN idxExists ELSE FALSE)

\* the description returned with the step: its fixed text and the two values
\* formatted into "sections {progress}, next: {next_section}"
Label(text, progress_str, next_section) ==
    [text |-> text, progress |-> progress_str, next |-> next_section]

\* a description with nothing formatted into it
PlainLabel(text) == Label(text, <<0, 0>>, <<>>)

\* the tuple (resume_step, last_completed); none is TRUE for a resume_step of None
Resume(none, step, label) == [none |-> none, step |-> step, label |-> label]

\* the pre-section checks taken from the lowest step up
PreSectionStageLowestFirst(f) ==
    IF f.sections # <<>> THEN Resume(FALSE, 18, PlainLabel("section files exist but no index"))
    ELSE IF f.research THEN Resume(FALSE, 8, PlainLabel("research complete"))
    ELSE IF f.interview THEN Resume(FALSE, 10, PlainLabel("interview complete"))
    ELSE IF f.spec THEN Resume(FALSE, 11, PlainLabel("spec complete"))
    ELSE IF f.plan THEN Resume(FALSE, 12, PlainLabel("implementation plan complete"))
    ELSE IF f.reviews # <<>> THEN Resume(FALSE, 14, PlainLabel("external review complete"))
    ELSE IF f.integration_notes THEN Resume(FALSE, 15, PlainLabel("feedback integrated"))
    ELSE IF f.plan_tdd THEN Resume(FALSE, 17, PlainLabel("TDD plan complete"))
    ELSE Resume(FALSE, 6, PlainLabel("none"))

\* infer_resume_step from "if files["sections"]:" on: highest step first
PreSectionStage(f) ==
    IF f.sections # <<>> THEN Resume(FALSE, 18, PlainLabel("section files exist but no index"))
    ELSE IF f.plan_tdd THEN Resume(FALSE, 17, PlainLabel("TDD plan complete"))
    ELSE IF f.integration_notes THEN Resume(FALSE, 15, PlainLabel("feedback integrated"))
    ELSE IF f.reviews # <<>> THEN Resume(FALSE, 14, PlainLabel("external review complete"))
    ELSE IF f.plan THEN Resume(FALSE, 12, PlainLabel("implementation plan complete"))
    ELSE IF f.spec THEN Resume(FALSE, 11, PlainLabel("spec complete"))
    ELSE IF f.interview THEN Resume(FALSE, 10, PlainLabel("interview complete"))
    ELSE IF f.research THEN Resume(FALSE, 8, PlainLabel("research complete"))
    ELSE Resume(FALSE, 6, PlainLabel("none"))

\* the workflow taken as complete as soon as index.md exists
InferIndexMeansComplete(f, section_progress) ==
    IF f.sections_index THEN Resume(TRUE, 0, PlainLabel("complete"))
    ELSE PreSectionStage(f)

\* the section files looked at ahead of the section index
InferSectionFilesFirst(f, section_progress) ==
    IF f.sections # <<>>
    THEN Resume(FALSE, 18, PlainLabel("section files exist but no index"))
    ELSE IF f.sections_index /\ section_progress.state = "complete"
    THEN Resume(TRUE, 0, PlainLabel("complete"))
    ELSE IF f.sections_index /\ section_progress.state \in {"partial", "has_index"}
    THEN Resume(FALSE, 19, Label("sections", section_progress.progress,
                                section_progress.next_section))
    ELSE PreSectionStage(f)

\* infer_resume_step(files, section_progress)
infer_resume_step(f, section_progress) ==
    IF f.sections_index /\ section_progress.state = "complete"
    THEN Resume(TRUE, 0, PlainLabel("complete"))
    ELSE IF f.sections_index /\ section_progress.state \in {"partial", "has_index"}
    THEN Resume(FALSE, 19, Label("sections", section_progress.progress,
                                section_progress.next_section))
    ELSE PreSectionStage(f)

\* the locals of main after the scan: files_found, section_progress and the tuple
Inferred(done, raised, files_found, section_progress, resume) ==
    [done |-> done, raised |-> raised, files |-> files_found,
     section_progress |-> section_progress, resume |-> resume]

----------------------------------------------------------------------------
(* lib/todos.py: the step table, generate_todos, generate_section_todo_items *)

\* an entry (content, activeForm, step) of TODO_ITEMS
Item(text, active_form, step) ==
    [content |-> <<text>>, activeForm |-> <<active_form>>, step |-> step]

TODO_ITEMS ==
    << Item("Check context / offer compaction", "Checking context", 0),
       Item("Print intro and validate environment", "Validating environment", 1),
       Item("Handle environment errors", "Handling environment errors", 2),
       Item("Validate spec file input", "Validating spec file input", 3),
       Item("Setup planning session", "Setting up planning session", 4),
       Item("Research decision", "Deciding on research approach", 6),
       Item("Execute research", "Executing research", 7),
       Item("Detailed interview", "Conducting detailed interview", 8),
       Item("Save interview transcript", "Saving interview transcript", 9),
       Item("Write initial spec", "Writing initial spec", 10),
       Item("Generate implementation plan", "Generating implementation plan", 11),
       Item("Context check (pre-review)", "Checking context (pre-review)", 12),
       Item("External LLM review", "Running external LLM review", 13),
       Item("Integrate external feedback", "Integrating external feedback", 14),
       Item("User review of integrated plan", "Waiting for user review", 15),
       Item("Apply TDD approach", "Applying TDD approach", 16),
       Item("Context check (pre-split)", "Checking context (pre-split)", 17),
       Item("Create section index", "Creating section index", 18),
       Item("Generate section TODOs", "Generating section TODOs", 19),
       Item("Write section files", "Writing section files", 20),
       Item("Final status and cleanup", "Finalizing status and cleanup", 21),
       Item("Output summary", "Outputting summary", 22) >>

GENERATE_SECTION_TODOS_CONTENT == <<"Generate section TODOs">>
GENERATE_SECTION_TODOS_STEP == 19
WRITE_SECTIONS_CONTENT == <<"Write section files">>
WRITE_SECTIONS_STEP == 20

\* a TODO item; content and activeForm are texts, a formatted value following its
\* fixed part
Todo(text, status, active_form) ==
    [content |-> text, status |-> status, activeForm |-> active_form]

\* an optional argument: given is FALSE for None
Some(value) == [given |-> TRUE, value |-> value]
NoText == [given |-> FALSE, value |-> <<>>]
NoFlag == [given |-> FALSE, value |-> FALSE]
NoList == [given |-> FALSE, value |-> <<>>]

\* "if x:" for an optional string: neither None nor empty
Truthy(x) == x.given /\ x.value # <<>>

\* str(b) of a bool
StrBool(b) == IF b THEN <<"T", "r", "u", "e">> ELSE <<"F", "a", "l", "s", "e">>

\* str.lower()
LowerChar(c) == CASE c = "T" -> "t" [] c = "F" -> "f" [] OTHER -> c
Lower(text) == [i \in DOMAIN text |-> LowerChar(text[i])]

\* one context item
ContextItem(key, value) ==
    Todo(<<key, "=">> \o value, "completed", <<"Context: ", key>>)

\* the context items with the flag tested like the strings, by "if x:"
ContextItemsTruthyFlag(plugin_root, planning_dir, initial_file, context_check_enabled) ==
    (IF Truthy(plugin_root) THEN <<ContextItem("plugin_root", plugin_root.value)>> ELSE <<>>)
    \o (IF Truthy(planning_dir) THEN <<ContextItem("planning_dir", planning_dir.value)>> ELSE <<>>)
    \o (IF Truthy(initial_file) THEN <<ContextItem("initial_file", initial_file.value)>> ELSE <<>>)
    \o (IF context_check_enabled.given /\ context_check_enabled.value
        THEN <<ContextItem("context_check_enabled", Lower(StrBool(context_check_enabled.value)))>>
        ELSE <<>>)

\* generate_todos, the context items prepended
ContextItems(plugin_root, planning_dir, initial_file, context_check_enabled) ==
    (IF Truthy(plugin_root) THEN <<ContextItem("plugin_root", plugin_root.value)>> ELSE <<>>)
    \o (IF Truthy(planning_dir) THEN <<ContextItem("planning_dir", planning_dir.value)>> ELSE <<>>)
    \o (IF Truthy(initial_file) THEN <<ContextItem("initial_file", initial_file.value)>> ELSE <<>>)
    \o (IF context_check_enabled.given
        THEN <<ContextItem("context_check_enabled", Lower(StrBool(context_check_enabled.value)))>>
        ELSE <<>>)

\* the status with the current step counted as completed
StatusForInclusive(step, current_step) ==
    IF step <= current_step THEN "completed" ELSE "pending"

\* generate_todos, the status of a table entry
StatusFor(step, current_step) ==
    IF step < current_step THEN "completed"
    ELSE IF step = current_step THEN "in_progress"
    ELSE "pending"

\* the loop over the table with "Generate section TODOs" kept
RECURSIVE TableItemsKeepPlaceholder(_, _, _)
TableItemsKeepPlaceholder(i, current_step, section_todos) ==
    IF i > Len(TODO_ITEMS) THEN <<>>
    ELSE LET it == TODO_ITEMS[i]
             rest == TableItemsKeepPlaceholder(i + 1, current_step, section_todos)
         IN  IF section_todos.given /\ it.content = WRITE_SECTIONS_CONTENT
             THEN section_todos.value \o rest
             ELSE <<Todo(it.content, StatusFor(it.step, current_step), it.activeForm)>>
                  \o rest

\* generate_todos, the loop over TODO_ITEMS from entry i on
RECURSIVE TableItems(_, _, _)
TableItems(i, current_step, section_todos) ==
    IF i > Len(TODO_ITEMS) THEN <<>>
    ELSE LET it == TODO_ITEMS[i]
             rest == TableItems(i + 1, current_step, section_todos)
         IN  IF section_todos.given /\ it.content = GENERATE_SECTION_TODOS_CONTENT
             THEN rest
             ELSE IF section_todos.given /\ it.content = WRITE_SECTIONS_CONTENT
             THEN section_todos.value \o rest
             ELSE <<Todo(it.content, StatusFor(it.step, current_step), it.activeForm)>>
                  \o rest

\* generate_todos(current_step, section_todos, plugin_root, planning_dir, initial_file,
\* context_check_enabled)
generate_todos(current_step, section_todos, plugin_root, planning_dir, initial_file, context_check_enabled) ==
    ContextItems(plugin_root, planning_dir, initial_file, context_check_enabled)
    \o TableItems(1, current_step, section_todos)

\* set(completed_sections)
ToSet(list) == {list[i] : i \in DOMAIN list}

\* one section item
SectionTodo(section_name, status) ==
    Todo(<<"Read section-splitting.md and write ">> \o section_name, status,
         <<"Writing ">> \o section_name)

\* the section items with the first section not yet written marked in_progress
SectionTodoItemsFirstInProgress(all_sections, completed_sections) ==
    LET completed_set == ToSet(completed_sections)
        open == {i \in DOMAIN all_sections : all_sections[i] \notin completed_set}
    IN  [i \in DOMAIN all_sections |->
            SectionTodo(all_sections[i],
                        IF all_sections[i] \in completed_set THEN "completed"
                        ELSE IF \A j \in open : i <= j THEN "in_progress"
                        ELSE "pending")]

\* generate_section_todo_items(all_sections, completed_sections)
generate_section_todo_items(all_sections, completed_sections) ==
    LET completed_set == ToSet(completed_sections)
    IN  [i \in DOMAIN all_sections |->
            SectionTodo(all_sections[i],
                        IF all_sections[i] \in completed_set THEN "completed"
                        ELSE "pending")]

\* the arguments of the two generators
TodoArgs(current_step, with_sections, all_sections, completed_sections, plugin_root, planning_dir, initial_file, context_check_enabled) ==
    [current_step |-> current_step, with_sections |-> with_sections,
     all_sections |-> all_sections, completed_sections |-> completed_sections,
     plugin_root |-> plugin_root, planning_dir |-> planning_dir,
     initial_file |-> initial_file, context_check_enabled |-> context_check_enabled]

\* what the generators have returned so far
TodoLists(stage, section_todos, todos) ==
    [stage |-> stage, section_todos |-> section_todos, todos |-> todos]

----------------------------------------------------------------------------
(* generate-section-todos.py *)

\* the session config stored for planning_dir: absent, corrupt, or a record with
\* the three paths and context.check_enabled (given is FALSE when the key is not there)
SessionConfig(status, plugin_root, planning_dir, initial_file, check_enabled) ==
    [status |-> status, plugin_root |-> plugin_root, planning_dir |-> planning_dir,
     initial_file |-> initial_file, check_enabled |-> check_enabled]

\* load_session_config(planning_dir) raises ConfigError
LoadRaisesConfigError(cfg) == cfg.status # "ok"

\* the "error" of the JSON: its fixed text and the message formatted into it
GenError(text, detail) == [text |-> text, detail |-> detail]

\* "error": None
NoGenError == GenError("", NoError)

\* the dict the entry point prints
GenResult(success, error, todos, state, total_sections, completed_sections, missing_sections) ==
    [success |-> success, error |-> error, todos |-> todos, state |-> state,
     total_sections |-> total_sections, completed_sections |-> completed_sections,
     missing_sections |-> missing_sections]

\* session_config.get("context", {}).get("check_enabled", True)
ContextCheckEnabled(cfg) ==
    IF cfg.check_enabled.given THEN cfg.check_enabled.value ELSE TRUE

\* generate_section_todos with the invalid_index test left out
GenerateSectionTodosNoInvalidTest(section_progress, cfg) ==
    LET state == section_progress.state
        defined_sections == section_progress.defined_sections
        completed_sections == section_progress.completed_sections
        section_todos == generate_section_todo_items(defined_sections, completed_sections)
    IN  IF state = "fresh"
        THEN GenResult(FALSE, GenError("No sections/index.md found. Create the section index first (step 18).", NoError), <<>>, state, 0, 0, <<>>)
        ELSE GenResult(TRUE, NoGenError,
                       generate_todos(GENERATE_SECTION_TODOS_STEP, Some(section_todos),
                                      cfg.plugin_root, cfg.planning_dir, cfg.initial_file,
                                      Some(ContextCheckEnabled(cfg))),
                       state, Len(defined_sections), Len(completed_sections),
                       section_progress.missing_sections)

\* generate_section_todos expanding the sections in state complete as well
GenerateSectionTodosAlwaysExpands(section_progress, cfg) ==
    LET state == section_progress.state
        defined_sections == section_progress.defined_sections
        completed_sections == section_progress.completed_sections
        section_todos == generate_section_todo_items(defined_sections, completed_sections)
    IN  IF state = "fresh"
        THEN GenResult(FALSE, GenError("No sections/index.md found. Create the section index first (step 18).", NoError), <<>>, state, 0, 0, <<>>)
        ELSE IF state = "invalid_index"
        THEN GenResult(FALSE, GenError("Invalid index.md: ", section_progress.index_format.error),
                       <<>>, state, 0, Len(completed_sections), <<>>)
        ELSE GenResult(TRUE, NoGenError,
                       generate_todos(GENERATE_SECTION_TODOS_STEP, Some(section_todos),
                                      cfg.plugin_root, cfg.planning_dir, cfg.initial_file,
                                      Some(ContextCheckEnabled(cfg))),
                       state, Len(defined_sections), Len(completed_sections),
                       section_progress.missing_sections)

\* generate_section_todos(planning_dir, session_config), section_progress being what
\* check_section_progress(planning_dir) returned
generate_section_todos(section_progress, cfg) ==
    LET state == section_progress.state
        defined_sections == section_progress.defined_sections
        completed_sections == section_progress.completed_sections
        section_todos == generate_section_todo_items(defined_sections, completed_sections)
    IN  IF state = "fresh"
        THEN GenResult(FALSE, GenError("No sections/index.md found. Create the section index first (step 18).", NoError), <<>>, state, 0, 0, <<>>)
        ELSE IF state = "invalid_index"
        THEN GenResult(FALSE, GenError("Invalid index.md: ", section_progress.index_format.error),
                       <<>>, state, 0, Len(completed_sections), <<>>)
        ELSE IF state = "complete"
        THEN GenResult(TRUE, NoGenError,
                       generate_todos(GENERATE_SECTION_TODOS_STEP, NoList,
                                      cfg.plugin_root, cfg.planning_dir, cfg.initial_file,
                                      Some(ContextCheckEnabled(cfg))),
                       state, Len(defined_sections), Len(completed_sections), <<>>)
        ELSE GenResult(TRUE, NoGenError,
                       generate_todos(GENERATE_SECTION_TODOS_STEP, Some(section_todos),
                                      cfg.plugin_root, cfg.planning_dir, cfg.initial_file,
                                      Some(ContextCheckEnabled(cfg))),
                       state, Len(defined_sections), Len(completed_sections),
                       section_progress.missing_sections)

\* main, the dict printed when load_session_config raises ConfigError
ConfigErrorResult ==
    GenResult(FALSE, GenError("Session config not found. Run setup-planning-session.py first. Error: ", NoError), <<>>, "error", 0, 0, <<>>)

\* a run of the entry point: raised is TRUE when it ended in an uncaught exception,
\* with nothing printed
GenRun(done, raised, exit_code, result) ==
    [done |-> done, raised |-> raised, exit_code |-> exit_code, result |-> result]

\* main: return 0 if result["success"] else 1
ExitCode(result) == IF result.success THEN 0 ELSE 1

----------------------------------------------------------------------------
(* setup-planning-session.py: build_files_summary and main *)

\* the paths of a session: --plugin-root, the parent of --file, and --file
PLUGIN_ROOT == <<"/", "p", "l", "u", "g", "i", "n">>
PLANNING_DIR == <<"/", "p", "l", "a", "n">>
INITIAL_FILE == <<"/", "p", "l", "a", "n", "/", "s", "p", "e", "c", ".", "m", "d">>

\* one line of the files summary: its fixed text and the values formatted into it
SummaryLine(text, count, progress_str, state) ==
    [text |-> text, count |-> count, progress |-> progress_str, state |-> state]

\* a line naming a file
FileLine(text) == SummaryLine(text, 0, <<0, 0>>, "")

\* build_files_summary, the line for sections/
SectionsLine(f, section_progress) ==
    IF section_progress.state = "complete"
    THEN SummaryLine("sections/ ({progress} complete)", 0, section_progress.progress, "")
    ELSE IF f.sections_index
    THEN SummaryLine("sections/ ({progress}, {state})", 0, section_progress.progress,
                     section_progress.state)
    ELSE SummaryLine("sections/ ({count} files, no index)", Len(f.sections), <<0, 0>>, "")

\* build_files_summary(files, section_progress)
build_files_summary(f, section_progress) ==
    (IF f.research THEN <<FileLine("claude-research.md")>> ELSE <<>>)
    \o (IF f.interview THEN <<FileLine("claude-interview.md")>> ELSE <<>>)
    \o (IF f.spec THEN <<FileLine("claude-spec.md")>> ELSE <<>>)
    \o (IF f.plan THEN <<FileLine("claude-plan.md")>> ELSE <<>>)
    \o (IF f.integration_notes THEN <<FileLine("claude-integration-notes.md")>> ELSE <<>>)
    \o (IF f.plan_tdd THEN <<FileLine("claude-plan-tdd.md")>> ELSE <<>>)
    \o (IF f.reviews # <<>>
        THEN <<SummaryLine("reviews/ ({count} files)", Len(f.reviews), <<0, 0>>, "")>>
        ELSE <<>>)
    \o (IF f.sections # <<>> \/ f.sections_index
        THEN <<SectionsLine(f, section_progress)>> ELSE <<>>)

\* the mode chosen by the resume step alone
DetermineModeByStepOnly(resume, files_summary) ==
    IF resume.none THEN "complete"
    ELSE IF resume.step = 6 THEN "new"
    ELSE "resume"

\* main, "Determine mode"
DetermineMode(resume, files_summary) ==
    IF resume.none THEN "complete"
    ELSE IF resume.step = 6 /\ files_summary = <<>> THEN "new"
    ELSE "resume"

\* STEP_NAMES.get(resume_step, f"Step {resume_step}") for a step of the table
StepName(step) ==
    IF step = 0 THEN <<"Context check">>
    ELSE TODO_ITEMS[CHOOSE i \in DOMAIN TODO_ITEMS : TODO_ITEMS[i].step = step].content

\* the message: its fixed text and the step, step name and description formatted in
Message(text, step, step_name, last_completed) ==
    [text |-> text, step |-> step, step_name |-> step_name,
     last_completed |-> last_completed]

\* main, "Build message"; the spec file exists when this is reached
BuildMessage(mode, resume) ==
    IF mode = "resume"
    THEN Message("Resuming from step {resume_step} ({step_name}). Last completed: {last_completed}",
                 resume.step, StepName(resume.step), resume.label)
    ELSE IF mode = "complete"
    THEN Message("Planning workflow complete - all sections written", 0, <<>>, PlainLabel(""))
    ELSE Message("Starting new planning session in: {planning_dir}", 0, <<>>, PlainLabel(""))

\* current_step = resume_step if resume_step is not None else 22
CurrentStep(resume) == IF resume.none THEN 22 ELSE resume.step

\* get_or_create_session_config raises ConfigError
GetOrCreateRaisesConfigError(cfg) == cfg.status = "corrupt"

\* get_or_create_session_config: the stored record, or a new one written with the
\* arguments and a copy of the global settings, check_enabled among them
get_or_create_session_config(cfg, plugin_root, planning_dir, initial_file, check_enabled) ==
    IF cfg.status = "ok"
    THEN [config |-> cfg, created |-> FALSE]
    ELSE [config |-> SessionConfig("ok", Some(plugin_root), Some(planning_dir),
                                   Some(initial_file), Some(check_enabled)),
          created |-> TRUE]

\* the dict main prints
SetupResult(success, mode, error, resume, config_created, message, files_found, files_summary, section_progress, todos) ==
    [success |-> success, mode |-> mode, error |-> error, resume |-> resume,
     config_created |-> config_created, message |-> message, files_found |-> files_found,
     files_summary |-> files_summary, section_progress |-> section_progress,
     todos |-> todos]

\* the dict printed on a rejected input or a ConfigError: success, error and mode only
SetupError(text) ==
    SetupResult(FALSE, "error", text, Resume(FALSE, 0, PlainLabel("")), FALSE,
                Message("", 0, <<>>, PlainLabel("")),
                FilesFound(FALSE, FALSE, FALSE, FALSE, FALSE, FALSE, <<>>, <<>>, FALSE),
                <<>>, NoOutcome, <<>>)

\* main from the scan on: the dict printed on success
SetupSuccess(got, files_found, section_progress, plugin_root, planning_dir, initial_file) ==
    LET resume == infer_resume_step(files_found, section_progress)
        files_summary == build_files_summary(files_found, section_progress)
        mode == DetermineMode(resume, files_summary)
    IN  SetupResult(TRUE, mode, "", resume, got.created, BuildMessage(mode, resume),
                    files_found, files_summary, section_progress,
                    generate_todos(CurrentStep(resume), NoList, Some(plugin_root),
                                   Some(planning_dir), Some(initial_file),
                                   Some(ContextCheckEnabled(got.config))))

\* the spec-file checks of main: the error text, "" when the file passes
SpecFileError(spec_file) ==
    CASE spec_file = "missing" -> "Spec file not found: {file_path}"
      [] spec_file = "dir" -> "Expected a spec file, got a directory: {file_path}"
      [] spec_file = "empty" -> "Spec file is empty: {file_path}"
      [] OTHER -> ""

\* the session config with get-or-create called ahead of the spec-file checks
SessionConfigCreatedFirst(spec_file, cfg, check_enabled) ==
    IF GetOrCreateRaisesConfigError(cfg) THEN cfg
    ELSE get_or_create_session_config(cfg, PLUGIN_ROOT, PLANNING_DIR, INITIAL_FILE,
                                      check_enabled).config

\* the session config stored when main has ended
SessionConfigAfter(spec_file, cfg, check_enabled) ==
    IF SpecFileError(spec_file) # "" THEN cfg
    ELSE IF GetOrCreateRaisesConfigError(cfg) THEN cfg
    ELSE get_or_create_session_config(cfg, PLUGIN_ROOT, PLANNING_DIR, INITIAL_FILE,
                                      check_enabled).config

\* a run of the entry point: printed is TRUE when one JSON object was printed, raised
\* when the run ended in an uncaught exception
SetupRun(done, raised, printed, exit_code, result) ==
    [done |-> done, raised |-> raised, printed |-> printed, exit_code |-> exit_code,
     result |-> result]

----------------------------------------------------------------------------
(* Inputs *)

BLANK == <<" ">>
S01z == <<"section-", "0", "1", "-", "z">>
\* indented, with trailing whitespace; number 01 again
S01a == <<" ", "section-", "0", "1", "-", "a", " ">>
S02a == <<"section-", "0", "2", "-", "a">>
S10b == <<"section-", "1", "0", "-", "b">>
\* one digit only: not a section name
BAD == <<"section-", "1", "-", "a">>

Lines == {MANIFEST_START, MANIFEST_END, BLANK, S01z, S01a, S02a, S10b, BAD}

\* every text of at most MaxLines lines
Contents == UNION {[1..n -> Lines] : n \in 0..MaxLines}

\* texts written to index.md
IndexTexts ==
    { <<>>,
      <<BAD>>,
      <<MANIFEST_START, S01z>>,
      <<MANIFEST_START, BLANK, MANIFEST_END>>,
      <<MANIFEST_START, S01z, BAD, MANIFEST_END>>,
      <<MANIFEST_START, S01z, S02a, S01a, MANIFEST_END>>,
      <<MANIFEST_START, S01z, MANIFEST_END>>,
      <<MANIFEST_START, S10b, S02a, MANIFEST_END>>,
      <<MANIFEST_START, S02a, S10b, S01z, MANIFEST_END>> }

\* stems of the files written to sections/: the three sections, a one-digit number,
\* a name with no digit after "section-", a file the glob does not match
F2x == <<"section-", "2", "-", "x">>
Fsectionx == <<"section-", "x">>
Fx == <<"x">>
FileStems == {S01z, S02a, S10b, F2x, Fsectionx, Fx}

\* the stems in sections/ when a session is set up: two sections, a name with no
\* digit after "section-", a file the glob does not match
PlanningStems == {S01z, S02a, Fsectionx, Fx}

\* the texts whose manifest parses
ValidIndexTexts == {c \in Contents : parse_manifest_block(c).success}

\* contents of planning_dir outside sections/
ReviewNames == {<<>>, <<"iteration-1-gemini.md">>}
Artifacts ==
    [research : BOOLEAN, interview : BOOLEAN, spec : BOOLEAN, plan : BOOLEAN,
     integration_notes : BOOLEAN, plan_tdd : BOOLEAN, reviews : ReviewNames]
NoArtifacts ==
    [research |-> FALSE, interview |-> FALSE, spec |-> FALSE, plan |-> FALSE,
     integration_notes |-> FALSE, plan_tdd |-> FALSE, reviews |-> <<>>]

\* arguments of the TODO generators
SeqsUpTo(S, n) == UNION {[1..k -> S] : k \in 0..n}
TodoInputs ==
    [current_step : 0..MaxStep, with_sections : BOOLEAN,
     all_sections : SeqsUpTo({S01z, S02a}, MaxSections),
     completed_sections : SeqsUpTo({S02a, F2x}, MaxCompleted),
     plugin_root : {NoText, Some(<<>>), Some(PLUGIN_ROOT)},
     planning_dir : {NoText, Some(PLANNING_DIR)},
     initial_file : {NoText, Some(INITIAL_FILE)},
     context_check_enabled : {NoFlag, Some(TRUE), Some(FALSE)}]
NoTodoArgs == TodoArgs(0, FALSE, <<>>, <<>>, NoText, NoText, NoText, NoFlag)
NoTodoLists == TodoLists("start", <<>>, <<>>)

\* the planning directories a session is set up in: index.md absent, without a
\* block, or with a manifest of one or two sections; one section file and one file
\* with no digit after "section-"
SetupIndexTexts == {<<>>, <<MANIFEST_START, S01z, MANIFEST_END>>, <<MANIFEST_START, S10b, S02a, MANIFEST_END>>}
SetupStems == {S01z, Fsectionx}
SpecFiles == {"missing", "dir", "empty", "ok"}

\* session configs: none stored, an unreadable one, and records as the session setup
\* writes them, with context.check_enabled true, false or not there
NoSessionConfig == SessionConfig("absent", NoText, NoText, NoText, NoFlag)
SessionConfigs ==
    { NoSessionConfig, SessionConfig("corrupt", NoText, NoText, NoText, NoFlag) }
    \cup { SessionConfig("ok", Some(PLUGIN_ROOT), Some(PLANNING_DIR), Some(INITIAL_FILE), flag) :
             flag \in {NoFlag, Some(TRUE), Some(FALSE)} }

----------------------------------------------------------------------------
(* State machine *)

\* the session setup has not scanned
NotInferred ==
    Inferred(FALSE, FALSE, scan_planning_files(NoArtifacts, "absent", FALSE, <<>>),
             NoOutcome, Resume(FALSE, 0, PlainLabel("")))

\* no entry point has run
EntryIdle ==
    /\ inferred = NotInferred
    /\ todoOut = NoTodoLists
    /\ genOut = GenRun(FALSE, FALSE, 0, ConfigErrorResult)
    /\ setupOut = SetupRun(FALSE, FALSE, FALSE, 0, SetupError(""))

\* a sections/ entry of any shape
AnySections ==
    /\ sectionsKind \in {"absent", "file", "dir"}
    /\ indexExists \in BOOLEAN
    /\ indexText \in IndexTexts
    /\ files \in SUBSET FileStems
    /\ sectionsKind # "dir" => ~indexExists /\ files = {}
    /\ ~indexExists => indexText = <<>>

NotParsed == Failure(NoError)

\* an empty planning directory; no text in hand
Init ==
    /\ content = <<>>
    /\ parsed = NotParsed
    /\ pdone = FALSE
    /\ sectionsKind = "absent"
    /\ indexExists = FALSE
    /\ indexText = <<>>
    /\ files = {}
    /\ progress = NoOutcome
    /\ ran = FALSE
    /\ artifacts = NoArtifacts
    /\ todoIn = NoTodoArgs
    /\ sessionConfig = NoSessionConfig
    /\ specFile = "ok"
    /\ EntryIdle

\* a text of any shape in hand, and a sections/ directory whose index.md holds it
InitParse ==
    /\ content \in Contents
    /\ parsed = NotParsed
    /\ pdone = FALSE
    /\ sectionsKind = "dir"
    /\ indexExists = TRUE
    /\ indexText = content
    /\ files = {}
    /\ progress = NoOutcome
    /\ ran = FALSE
    /\ artifacts = NoArtifacts
    /\ todoIn = NoTodoArgs
    /\ sessionConfig = NoSessionConfig
    /\ specFile = "ok"
    /\ EntryIdle

\* result = parse_manifest_block(content)
ParseManifestBlock ==
    /\ ~pdone
    /\ parsed' = parse_manifest_block(content)
    /\ pdone' = TRUE
    /\ UNCHANGED <<content, fsVars, outVars, planVars>>

\* the orchestrator creates planning_dir/sections
MkSectionsDir ==
    /\ sectionsKind = "absent"
    /\ sectionsKind' = "dir"
    /\ progress' = NoOutcome
    /\ ran' = FALSE
    /\ UNCHANGED <<parseVars, indexExists, indexText, files, planVars>>

\* planning_dir/sections is created as a regular file
TouchSections ==
    /\ sectionsKind = "absent"
    /\ sectionsKind' = "file"
    /\ progress' = NoOutcome
    /\ ran' = FALSE
    /\ UNCHANGED <<parseVars, indexExists, indexText, files, planVars>>

\* sections/index.md is written
WriteIndex ==
    /\ sectionsKind = "dir"
    /\ \E text \in IndexTexts :
         /\ ~(indexExists /\ indexText = text)
         /\ indexText' = text
    /\ indexExists' = TRUE
    /\ progress' = NoOutcome
    /\ ran' = FALSE
    /\ UNCHANGED <<parseVars, sectionsKind, files, planVars>>

\* a file <stem>.md is written in sections/
WriteSectionFile ==
    /\ sectionsKind = "dir"
    /\ \E f \in FileStems \ files : files' = files \cup {f}
    /\ progress' = NoOutcome
    /\ ran' = FALSE
    /\ UNCHANGED <<parseVars, sectionsKind, indexExists, indexText, planVars>>

\* check-sections.py: result = check_section_progress(planning_dir)
CheckSectionProgress ==
    /\ \E listing \in Listings(GlobSectionFiles(files)) :
         progress' = check_section_progress(sectionsKind, indexExists, indexText, listing)
    /\ ran' = TRUE
    /\ UNCHANGED <<parseVars, fsVars, planVars>>

Next ==
    \/ MkSectionsDir
    \/ TouchSections
    \/ WriteIndex
    \/ WriteSectionFile
    \/ CheckSectionProgress

Spec == Init /\ [][Next]_vars

NextParse ==
    \/ ParseManifestBlock
    \/ CheckSectionProgress

SpecParse == InitParse /\ [][NextParse]_vars

\* a planning directory of any shape, no text in hand
InitPlanning ==
    /\ content = <<>>
    /\ parsed = NotParsed
    /\ pdone = FALSE
    /\ AnySections
    /\ files \subseteq PlanningStems
    /\ progress = NoOutcome
    /\ ran = FALSE
    /\ artifacts \in Artifacts
    /\ todoIn = NoTodoArgs
    /\ sessionConfig = NoSessionConfig
    /\ specFile = "ok"
    /\ EntryIdle

\* setup-planning-session.py main: files_found = scan_planning_files(planning_dir),
\* section_progress = check_section_progress(planning_dir),
\* resume_step, last_completed = infer_resume_step(files_found, section_progress)
InferResumeStep ==
    /\ ~inferred.done
    /\ \E listing \in Listings(GlobSectionFiles(files)) :
         LET files_found == scan_planning_files(artifacts, sectionsKind, indexExists, listing)
             section_progress == check_section_progress(sectionsKind, indexExists,
                                                        indexText, listing)
         IN  inferred' =
                 IF section_progress.raised
                 THEN Inferred(TRUE, TRUE, files_found, section_progress,
                               Resume(FALSE, 0, PlainLabel("")))
                 ELSE Inferred(TRUE, FALSE, files_found, section_progress,
                               infer_resume_step(files_found, section_progress))
    /\ UNCHANGED <<parseVars, fsVars, outVars, artifacts, todoIn, todoOut, sessionConfig, genOut, specFile, setupOut>>

NextInfer == InferResumeStep

SpecInfer == InitPlanning /\ [][NextInfer]_vars

\* arguments of any shape for the TODO generators, an empty planning directory
InitTodos ==
    /\ content = <<>>
    /\ parsed = NotParsed
    /\ pdone = FALSE
    /\ sectionsKind = "absent"
    /\ indexExists = FALSE
    /\ indexText = <<>>
    /\ files = {}
    /\ progress = NoOutcome
    /\ ran = FALSE
    /\ artifacts = NoArtifacts
    /\ todoIn \in TodoInputs
    /\ ~todoIn.with_sections => todoIn.all_sections = <<>> /\ todoIn.completed_sections = <<>>
    /\ sessionConfig = NoSessionConfig
    /\ specFile = "ok"
    /\ EntryIdle

\* section_todos = generate_section_todo_items(all_sections, completed_sections)
GenerateSectionTodoItems ==
    /\ todoOut.stage = "start"
    /\ todoIn.with_sections
    /\ todoOut' = TodoLists("sectioned",
                            generate_section_todo_items(todoIn.all_sections,
                                                        todoIn.completed_sections),
                            <<>>)
    /\ UNCHANGED <<parseVars, fsVars, outVars, artifacts, inferred, todoIn, sessionConfig, genOut, specFile, setupOut>>

\* todos = generate_todos(current_step, section_todos, ...), section_todos being None
\* unless the section items were generated
GenerateTodos ==
    /\ \/ todoOut.stage = "start" /\ ~todoIn.with_sections
       \/ todoOut.stage = "sectioned"
    /\ todoOut' = TodoLists("done", todoOut.section_todos,
                            generate_todos(todoIn.current_step,
                                           IF todoIn.with_sections
                                           THEN Some(todoOut.section_todos) ELSE NoList,
                                           todoIn.plugin_root, todoIn.planning_dir,
                                           todoIn.initial_file,
                                           todoIn.context_check_enabled))
    /\ UNCHANGED <<parseVars, fsVars, outVars, artifacts, inferred, todoIn, sessionConfig, genOut, specFile, setupOut>>

NextTodos ==
    \/ GenerateSectionTodoItems
    \/ GenerateTodos

SpecTodos == InitTodos /\ [][NextTodos]_vars

\* a sections/ entry and a session config of any shape
InitGenerate ==
    /\ content = <<>>
    /\ parsed = NotParsed
    /\ pdone = FALSE
    /\ AnySections
    /\ files \subseteq PlanningStems
    /\ progress = NoOutcome
    /\ ran = FALSE
    /\ artifacts = NoArtifacts
    /\ todoIn = NoTodoArgs
    /\ sessionConfig \in SessionConfigs
    /\ specFile = "ok"
    /\ EntryIdle

\* generate-section-todos.py main
RunGenerateSectionTodos ==
    /\ ~genOut.done
    /\ IF LoadRaisesConfigError(sessionConfig)
       THEN genOut' = GenRun(TRUE, FALSE, 1, ConfigErrorResult)
       ELSE \E listing \in Listings(GlobSectionFiles(files)) :
               LET section_progress == check_section_progress(sectionsKind, indexExists,
                                                              indexText, listing)
                   result == generate_section_todos(section_progress, sessionConfig)
               IN  genOut' = IF section_progress.raised
                             THEN GenRun(TRUE, TRUE, 1, ConfigErrorResult)
                             ELSE GenRun(TRUE, FALSE, ExitCode(result), result)
    /\ UNCHANGED <<parseVars, fsVars, outVars, artifacts, inferred, todoIn, todoOut, sessionConfig, specFile, setupOut>>

NextGenerate == RunGenerateSectionTodos

SpecGenerate == InitGenerate /\ [][NextGenerate]_vars

\* the workflow writes one of the claude-*.md files
CreatePlanningFile ==
    /\ \E key \in {"research", "interview", "spec", "plan", "integration_notes", "plan_tdd"} :
         /\ ~artifacts[key]
         /\ artifacts' = [artifacts EXCEPT ![key] = TRUE]
    /\ inferred' = NotInferred
    /\ UNCHANGED <<parseVars, fsVars, outVars, todoIn, todoOut, sessionConfig, genOut, specFile, setupOut>>

\* the workflow writes a review into reviews/
CreateReview ==
    /\ artifacts.reviews = <<>>
    /\ artifacts' = [artifacts EXCEPT !.reviews = <<"iteration-1-gemini.md">>]
    /\ inferred' = NotInferred
    /\ UNCHANGED <<parseVars, fsVars, outVars, todoIn, todoOut, sessionConfig, genOut, specFile, setupOut>>

\* the workflow creates sections/
CreateSectionsDir ==
    /\ sectionsKind = "absent"
    /\ sectionsKind' = "dir"
    /\ inferred' = NotInferred
    /\ UNCHANGED <<parseVars, indexExists, indexText, files, outVars, artifacts, todoIn, todoOut, sessionConfig, genOut, specFile, setupOut>>

\* the workflow writes sections/index.md, once
CreateIndex ==
    /\ sectionsKind = "dir"
    /\ ~indexExists
    /\ indexExists' = TRUE
    /\ indexText' \in IndexTexts
    /\ inferred' = NotInferred
    /\ UNCHANGED <<parseVars, sectionsKind, files, outVars, artifacts, todoIn, todoOut, sessionConfig, genOut, specFile, setupOut>>

\* the workflow writes a file into sections/
CreateSectionFile ==
    /\ sectionsKind = "dir"
    /\ \E f \in PlanningStems \ files : files' = files \cup {f}
    /\ inferred' = NotInferred
    /\ UNCHANGED <<parseVars, sectionsKind, indexExists, indexText, outVars, artifacts, todoIn, todoOut, sessionConfig, genOut, specFile, setupOut>>

NextWorkflow ==
    \/ CreatePlanningFile
    \/ CreateReview
    \/ CreateSectionsDir
    \/ CreateIndex
    \/ CreateSectionFile
    \/ InferResumeStep

\* the workflow from an empty planning directory on, the resume step inferred at any
\* point
SpecWorkflow == Init /\ [][NextWorkflow]_vars

\* sections/ holding an index.md with a valid manifest and no section file
InitWrite ==
    /\ content = <<>>
    /\ parsed = NotParsed
    /\ pdone = FALSE
    /\ sectionsKind = "dir"
    /\ indexExists = TRUE
    /\ indexText \in ValidIndexTexts
    /\ files = {}
    /\ progress = NoOutcome
    /\ ran = FALSE
    /\ artifacts = NoArtifacts
    /\ todoIn = NoTodoArgs
    /\ sessionConfig = NoSessionConfig
    /\ specFile = "ok"
    /\ EntryIdle

\* the section writer writes the file named by next_section of the last result; the
\* result in hand is then out of date
WriteNextSection ==
    /\ ran
    /\ ~progress.raised
    /\ progress.next_section # <<>>
    /\ files' = files \cup {progress.next_section}
    /\ ran' = FALSE
    /\ UNCHANGED <<parseVars, sectionsKind, indexExists, indexText, progress, planVars>>

NextWrite ==
    \/ WriteNextSection
    \/ CheckSectionProgress

\* the step of the loop that is due: a check when the result in hand is out of date,
\* a write when it names a next section; every step of the loop flips ran
LoopStep ==
    IF ran THEN ~progress.raised /\ progress.next_section # <<>> /\ ran' = FALSE
    ELSE ran' = TRUE

\* the writing loop: check, write the next section, check again, never stopping while
\* a step is due
SpecWrite == InitWrite /\ [][NextWrite]_vars /\ WF_ran(LoopStep)

\* a --file argument, a planning directory and a session config of any shape
InitSetup ==
    /\ content = <<>>
    /\ parsed = NotParsed
    /\ pdone = FALSE
    /\ AnySections
    /\ indexExists => indexText \in SetupIndexTexts
    /\ files \subseteq SetupStems
    /\ progress = NoOutcome
    /\ ran = FALSE
    /\ artifacts \in Artifacts
    /\ todoIn = NoTodoArgs
    /\ sessionConfig \in {NoSessionConfig, SessionConfig("corrupt", NoText, NoText, NoText, NoFlag), SessionConfig("ok", Some(PLUGIN_ROOT), Some(PLANNING_DIR), Some(INITIAL_FILE), Some(FALSE))}
    /\ specFile \in SpecFiles
    /\ inferred = NotInferred
    /\ todoOut = NoTodoLists
    /\ genOut = GenRun(FALSE, FALSE, 0, ConfigErrorResult)
    /\ setupOut = SetupRun(FALSE, FALSE, FALSE, 0, SetupError(""))

\* setup-planning-session.py main
RunSetup ==
    /\ ~setupOut.done
    /\ \E check_enabled \in BOOLEAN, listing \in Listings(GlobSectionFiles(files)) :
         LET got == get_or_create_session_config(sessionConfig, PLUGIN_ROOT, PLANNING_DIR,
                                                 INITIAL_FILE, check_enabled)
             files_found == scan_planning_files(artifacts, sectionsKind, indexExists, listing)
             section_progress == check_section_progress(sectionsKind, indexExists,
                                                        indexText, listing)
         IN  /\ sessionConfig' = SessionConfigAfter(specFile, sessionConfig, check_enabled)
             /\ setupOut' =
                    IF SpecFileError(specFile) # ""
                    THEN SetupRun(TRUE, FALSE, TRUE, 1, SetupError(SpecFileError(specFile)))
                    ELSE IF GetOrCreateRaisesConfigError(sessionConfig)
                    THEN SetupRun(TRUE, FALSE, TRUE, 1, SetupError("Session config error: {e}"))
                    ELSE IF section_progress.raised
                    THEN SetupRun(TRUE, TRUE, FALSE, 1, SetupError(""))
                    ELSE SetupRun(TRUE, FALSE, TRUE, 0,
                                  SetupSuccess(got, files_found, section_progress,
                                               PLUGIN_ROOT, PLANNING_DIR, INITIAL_FILE))
    /\ UNCHANGED <<parseVars, fsVars, outVars, artifacts, inferred, todoIn, todoOut, genOut, specFile>>

NextSetup == RunSetup

SpecSetup == InitSetup /\ [][NextSetup]_vars

----------------------------------------------------------------------------
(* Vocabulary of the properties, stated on the text itself *)

States == {"fresh", "invalid_index", "has_index", "partial", "complete"}

\* the integer value of the two-digit NN of a section name
NN(name) == 10 * DigitVal(name[2]) + DigitVal(name[3])

HasStart(text) == \E i \in 1..Len(text) : text[i] = MANIFEST_START

\* the line of the first start marker
FirstStart(text) ==
    CHOOSE i \in 1..Len(text) :
        /\ text[i] = MANIFEST_START
        /\ \A j \in 1..(i - 1) : text[j] # MANIFEST_START

\* an end marker stands at or after the first start marker
Closed(text) ==
    HasStart(text) /\ \E j \in FirstStart(text)..Len(text) : text[j] = MANIFEST_END

\* the line of the first end marker after the first start marker
FirstEnd(text) ==
    CHOOSE j \in FirstStart(text)..Len(text) :
        /\ text[j] = MANIFEST_END
        /\ \A k \in FirstStart(text)..(j - 1) : text[k] # MANIFEST_END

\* the lines strictly between the two markers
BlockIdx(text) == (FirstStart(text) + 1)..(FirstEnd(text) - 1)

IsBlankLine(l) == \A k \in 1..Len(l) : l[k] \in Whitespace

NonBlankIdx(text) == {i \in BlockIdx(text) : ~IsBlankLine(text[i])}

\* section-NN-name: exactly two digits and a non-empty name
WellFormedIdx(text) == {i \in NonBlankIdx(text) : MatchesSectionName(Strip(text[i]))}

MalformedIdx(text) == NonBlankIdx(text) \ WellFormedIdx(text)

\* the 1-based number of line i within the trimmed block
LineNo(text, i) == i + 1 - (CHOOSE f \in NonBlankIdx(text) : \A g \in NonBlankIdx(text) : f <= g)

\* the well-formed lines that carry the number of an earlier well-formed line
RepeatIdx(text) ==
    {j \in WellFormedIdx(text) :
        \E i \in WellFormedIdx(text) :
            i < j /\ SubSeq(Strip(text[i]), 2, 3) = SubSeq(Strip(text[j]), 2, 3)}

Lowest(S) == CHOOSE i \in S : \A j \in S : i <= j

----------------------------------------------------------------------------
(* Properties of parse_manifest_block, under SpecParse *)

\* C2: every accepted block yields the accepted lines, each once, in ascending order of
\* the integer value of NN, whatever the input order and the names
C2_SortedPermutation ==
    (pdone /\ parsed.success) =>
        LET s == parsed.sections
        IN  /\ \A i, j \in 1..Len(s) : i < j => NN(s[i]) < NN(s[j])
            /\ {s[i] : i \in 1..Len(s)} = {Strip(content[i]) : i \in NonBlankIdx(content)}
            /\ Len(s) = Cardinality(NonBlankIdx(content))

\* C2 witness: three lines given as 10, 01, 02, the names in the opposite order
C2_Witness ==
    /\ pdone
    /\ content = <<MANIFEST_START, S10b, S01z, S02a, MANIFEST_END>>
    /\ parsed.sections = <<S01z, S02a, S10b>>

C8_InvalidAlwaysReported ==
    (pdone /\ Closed(content) /\ MalformedIdx(content) # {}) =>
        /\ parsed.error.msg = "Invalid section name"
        /\ \E i \in MalformedIdx(content) :
              /\ parsed.error.line = Strip(content[i])
              /\ parsed.error.line_num = LineNo(content, i)

\* C8 amended: a block with a malformed line is always rejected; the failure is "Invalid
\* section name" with the text and the 1-based number, within the trimmed block, of the
\* first malformed line when no line before it repeats a number, and "Duplicate section
\* number" otherwise
C8_InvalidReportedUnlessEarlierDuplicate ==
    (pdone /\ Closed(content) /\ MalformedIdx(content) # {}) =>
        LET i == Lowest(MalformedIdx(content))
        IN  /\ ~parsed.success
            /\ (\A j \in RepeatIdx(content) : j > i) =>
                   parsed.error = ErrInvalidName(LineNo(content, i), Strip(content[i]))
            /\ (\E j \in RepeatIdx(content) : j < i) =>
                   parsed.error.msg = "Duplicate section number"

\* C8 witness: the malformed line is the third line of the trimmed block, behind a
\* well-formed line and a blank line
C8_Witness ==
    /\ pdone
    /\ content = <<MANIFEST_START, S02a, BLANK, BAD, MANIFEST_END>>
    /\ parsed.error = ErrInvalidName(3, BAD)

\* the number the gap walk expects at position i of the sorted list
Expected(s, i) == IF i = 1 THEN 1 ELSE NN(s[i - 1]) + 1

\* the positions of the sorted list whose number is not the expected one
GapIdx(s) == {i \in 1..Len(s) : NN(s[i]) # Expected(s, i)}

\* C9: a block whose non-blank lines are all well-formed with distinct numbers is
\* accepted, and the warnings are, in order, one per position of the sorted list whose
\* number is not the previous number plus one; none exactly when the numbers are 1..N
C9_GapsWarnOnly ==
    (pdone /\ Closed(content) /\ NonBlankIdx(content) # {}
           /\ MalformedIdx(content) = {} /\ RepeatIdx(content) = {}) =>
        LET s == parsed.sections
            w == parsed.warnings
        IN  /\ parsed.success
            /\ Len(w) = Cardinality(GapIdx(s))
            /\ \A i \in GapIdx(s) :
                  w[Cardinality({g \in GapIdx(s) : g <= i})] =
                      [expected |-> Expected(s, i), found |-> NN(s[i])]
            /\ (w = <<>>) <=> (\A i \in 1..Len(s) : NN(s[i]) = i)

\* C9 witness: numbers 02 and 10, two warnings
C9_Witness ==
    /\ pdone
    /\ content = <<MANIFEST_START, S10b, S02a, MANIFEST_END>>
    /\ parsed.success
    /\ Len(parsed.warnings) = 2

\* C10: no start marker gives the "No SECTION_MANIFEST block" failure; a start marker with
\* no end marker at or after it gives "not closed"; both markers with only blank lines
\* between them gives "empty"; the lines are examined in no other case
C10_MarkerOrder ==
    pdone =>
        /\ ~HasStart(content) => parsed.error = ErrNoBlock
        /\ (HasStart(content) /\ ~Closed(content)) => parsed.error = ErrNotClosed
        /\ (Closed(content) /\ NonBlankIdx(content) = {}) => parsed.error = ErrEmpty
        /\ (Closed(content) /\ NonBlankIdx(content) # {}) =>
              \/ parsed.success
              \/ parsed.error.msg \in {"Invalid section name", "Duplicate section number"}

\* C10 witness: the only end marker stands before the start marker
C10_Witness ==
    /\ pdone
    /\ content = <<MANIFEST_END, MANIFEST_START, S01z>>
    /\ parsed.error = ErrNotClosed

\* C11: in every result success is true exactly when error is None, a failure carries
\* no sections, a success carries at least one, and warnings is a list; a result is
\* returned for every text
C11_ResultShape ==
    pdone =>
        /\ parsed.success <=> (parsed.error = NoError)
        /\ ~parsed.success => parsed.sections = <<>>
        /\ parsed.success => parsed.sections # <<>>
        /\ DOMAIN parsed.warnings = 1..Len(parsed.warnings)
        /\ parsed.success \in BOOLEAN

\* C11 witness: a failure at the third line of a block, after two accepted lines
C11_Witness ==
    /\ pdone
    /\ content = <<MANIFEST_START, S01z, S02a, BAD, MANIFEST_END>>
    /\ ~parsed.success
    /\ parsed.error.line_num = 3

----------------------------------------------------------------------------
(* Properties of check_section_progress, under Spec *)

\* the manifest index.md holds
Manifest == parse_manifest_block(indexText)

ValidIndex == indexExists /\ Manifest.success

\* the defined sections that have a file in sections/
DefinedDone == {i \in 1..Len(Manifest.sections) : Manifest.sections[i] \in files}

\* the files of sections/ named section-*
SectionFiles == {f \in files : f[1] = "section-"}

\* C1: every call returns a record whose state is one of the five; none raises
C1_AlwaysReturnsAState ==
    ran => (~progress.raised /\ progress.state \in States)

\* C3: with a valid manifest in index.md the returned state is complete exactly when
\* every defined section has its file, that is when missing_sections is empty, and then
\* next_section is none; complete never comes with no defined section
C3_CompleteIffNoneMissing ==
    (ran /\ ~progress.raised) =>
        /\ ValidIndex =>
              /\ (progress.state = "complete") <=>
                     (\A i \in 1..Len(Manifest.sections) : Manifest.sections[i] \in files)
              /\ (progress.state = "complete") <=> (progress.missing_sections = <<>>)
              /\ (progress.state = "complete") => (progress.next_section = <<>>)
        /\ (progress.state = "complete") => (ValidIndex /\ progress.defined_sections # <<>>)

\* C3 witness: all three defined sections written, beside a file the manifest does not name
C3_Witness ==
    /\ ran
    /\ progress.state = "complete"
    /\ Len(progress.defined_sections) = 3
    /\ F2x \in files

\* C4: partial exactly when the manifest is valid and between 1 and n-1 of its n sections
\* have a file; has_index exactly when the manifest is valid and none of them has
C4_PartialAndHasIndexByDefinedDone ==
    (ran /\ ~progress.raised) =>
        LET n == Len(Manifest.sections)
            k == Cardinality(DefinedDone)
        IN  /\ (progress.state = "partial") <=> (ValidIndex /\ 1 <= k /\ k <= n - 1)
            /\ (progress.state = "has_index") <=> (ValidIndex /\ k = 0)

\* C5: with sections/ absent, or present without index.md and without any section-* file,
\* the call returns fresh, index_exists false, empty lists, no next section and "0/0"
C5_FreshWhenNothingThere ==
    (ran /\ (sectionsKind # "dir" \/ (~indexExists /\ SectionFiles = {}))) =>
        /\ ~progress.raised
        /\ progress.state = "fresh"
        /\ progress.index_exists = FALSE
        /\ progress.defined_sections = <<>>
        /\ progress.completed_sections = <<>>
        /\ progress.missing_sections = <<>>
        /\ progress.next_section = <<>>
        /\ progress.progress = <<0, 0>>

\* C5 witness: sections/ holds one file, which is no section file
C5_Witness ==
    /\ ran
    /\ sectionsKind = "dir"
    /\ files = {Fx}
    /\ progress.state = "fresh"

\* what C6 says of every record returned for an index.md without a valid manifest, the
\* error apart
InvalidIndexRecord ==
    /\ progress.state = "invalid_index"
    /\ progress.defined_sections = <<>>
    /\ progress.missing_sections = <<>>
    /\ progress.next_section = <<>>
    /\ progress.progress = <<0, 0>>
    /\ Len(progress.completed_sections) = Cardinality(SectionFiles)
    /\ {progress.completed_sections[i] : i \in 1..Len(progress.completed_sections)}
           = SectionFiles

----------------------------------------------------------------------------
(* Properties of infer_resume_step, under SpecInfer *)

\* the scan has run and infer_resume_step has returned
InferReturned == inferred.done /\ ~inferred.raised

\* the resume steps of the artifacts present outside sections/, 6 standing for none
ArtifactSteps ==
    {6} \cup (IF artifacts.research THEN {8} ELSE {})
        \cup (IF artifacts.interview THEN {10} ELSE {})
        \cup (IF artifacts.spec THEN {11} ELSE {})
        \cup (IF artifacts.plan THEN {12} ELSE {})
        \cup (IF artifacts.reviews # <<>> THEN {14} ELSE {})
        \cup (IF artifacts.integration_notes THEN {15} ELSE {})
        \cup (IF artifacts.plan_tdd THEN {17} ELSE {})

Highest(S) == CHOOSE i \in S : \A j \in S : j <= i

\* the description that goes with a pre-section step
StepText(step) ==
    CASE step = 17 -> "TDD plan complete"
      [] step = 15 -> "feedback integrated"
      [] step = 14 -> "external review complete"
      [] step = 12 -> "implementation plan complete"
      [] step = 11 -> "spec complete"
      [] step = 10 -> "interview complete"
      [] step = 8 -> "research complete"
      [] step = 6 -> "none"

\* C12: with no index.md and no section-*.md file, the step returned is the one of
\* the highest-priority artifact present (17, 15, 14, 12, 11, 10, 8), with its
\* description, and (6, "none") when there is none
C12_HighestArtifactWins ==
    (InferReturned /\ ~indexExists /\ SectionFiles = {}) =>
        /\ ~inferred.resume.none
        /\ inferred.resume.step = Highest(ArtifactSteps)
        /\ inferred.resume.label = PlainLabel(StepText(Highest(ArtifactSteps)))

\* C12 witness: claude-plan.md and claude-interview.md both there, nothing higher: 12
C12_Witness ==
    /\ InferReturned
    /\ ~indexExists /\ SectionFiles = {}
    /\ artifacts.plan /\ artifacts.interview
    /\ ~artifacts.plan_tdd /\ ~artifacts.integration_notes /\ artifacts.reviews = <<>>
    /\ inferred.resume.step = 12

\* C13: with index.md there, a section state of complete gives (None, "complete") and
\* a state of partial or has_index gives step 19 with the progress string and the
\* next section in the description, whatever the other artifacts; None is returned
\* only when the manifest is valid and every section it defines has its file
C13_IndexStage ==
    InferReturned =>
        /\ (indexExists /\ inferred.section_progress.state = "complete") =>
               inferred.resume = Resume(TRUE, 0, PlainLabel("complete"))
        /\ (indexExists /\ inferred.section_progress.state \in {"partial", "has_index"}) =>
               /\ ~inferred.resume.none
               /\ inferred.resume.step = 19
               /\ inferred.resume.label.text = "sections"
               /\ inferred.resume.label.progress = inferred.section_progress.progress
               /\ inferred.resume.label.next = inferred.section_progress.next_section
               /\ inferred.resume.label.next \in
                      {Manifest.sections[i] : i \in 1..Len(Manifest.sections)} \ files
        /\ inferred.resume.none =>
               /\ ValidIndex
               /\ \A i \in 1..Len(Manifest.sections) : Manifest.sections[i] \in files

\* C13 witness: a TDD plan and a review beside a partly written manifest
C13_Witness ==
    /\ InferReturned
    /\ indexExists
    /\ artifacts.plan_tdd /\ artifacts.reviews # <<>>
    /\ inferred.section_progress.state = "partial"
    /\ inferred.resume.step = 19
    /\ inferred.resume.label.progress = <<1, 2>>

\* C14: (18, "section files exist but no index") is returned exactly when a
\* section-*.md file exists and index.md does not
C14_Step18IffFilesAndNoIndex ==
    InferReturned =>
        ((inferred.resume.step = 18
             /\ inferred.resume.label = PlainLabel("section files exist but no index"))
         <=> (SectionFiles # {} /\ ~indexExists))

----------------------------------------------------------------------------
(* Properties of generate_todos and generate_section_todo_items, under SpecTodos *)

\* generate_todos has returned
TodosDone == todoOut.stage = "done"

\* the keys of the context arguments provided, in the fixed order; a string is
\* provided when it is neither None nor empty, the flag when it is not None
ProvidedKeys ==
    (IF todoIn.plugin_root.given /\ Len(todoIn.plugin_root.value) > 0
     THEN <<"plugin_root">> ELSE <<>>)
    \o (IF todoIn.planning_dir.given /\ Len(todoIn.planning_dir.value) > 0
        THEN <<"planning_dir">> ELSE <<>>)
    \o (IF todoIn.initial_file.given /\ Len(todoIn.initial_file.value) > 0
        THEN <<"initial_file">> ELSE <<>>)
    \o (IF todoIn.context_check_enabled.given THEN <<"context_check_enabled">> ELSE <<>>)

\* the value of a context argument as it is written after "key="
ValueText(key) ==
    CASE key = "plugin_root" -> todoIn.plugin_root.value
      [] key = "planning_dir" -> todoIn.planning_dir.value
      [] key = "initial_file" -> todoIn.initial_file.value
      [] key = "context_check_enabled" ->
            IF todoIn.context_check_enabled.value THEN <<"t", "r", "u", "e">>
            ELSE <<"f", "a", "l", "s", "e">>

NumContext == Len(ProvidedKeys)

\* the status the step table gives an entry
TableStatus(i) ==
    IF TODO_ITEMS[i].step < todoIn.current_step THEN "completed"
    ELSE IF TODO_ITEMS[i].step = todoIn.current_step THEN "in_progress"
    ELSE "pending"

\* the item at position p is the table's entry i
IsTableEntry(p, i) ==
    /\ todoOut.todos[p].content = TODO_ITEMS[i].content
    /\ todoOut.todos[p].activeForm = TODO_ITEMS[i].activeForm
    /\ todoOut.todos[p].status = TableStatus(i)

\* the positions after the context items that carry a status
WithStatus(status) ==
    {p \in (NumContext + 1)..Len(todoOut.todos) : todoOut.todos[p].status = status}

\* the position of a content in the table
TableIndex(text) == CHOOSE i \in DOMAIN TODO_ITEMS : TODO_ITEMS[i].content = text

\* C15: with no section list, the context items are followed by one item per table
\* entry, in table order, completed below current_step, in_progress at it, pending
\* above it: a completed prefix, at most one in_progress, a pending suffix; for
\* current_step 6 the counts are 5, 1 and 16
C15_OneItemPerStep ==
    (TodosDone /\ ~todoIn.with_sections) =>
        /\ Len(todoOut.todos) = NumContext + Len(TODO_ITEMS)
        /\ \A i \in DOMAIN TODO_ITEMS : IsTableEntry(NumContext + i, i)
        /\ Cardinality(WithStatus("in_progress")) <= 1
        /\ \A p \in WithStatus("completed") :
               \A q \in WithStatus("in_progress") \cup WithStatus("pending") : p < q
        /\ \A p \in WithStatus("in_progress") : \A q \in WithStatus("pending") : p < q
        /\ todoIn.current_step = 6 =>
               /\ Cardinality(WithStatus("completed")) = 5
               /\ Cardinality(WithStatus("in_progress")) = 1
               /\ Cardinality(WithStatus("pending")) = 16

\* C15 witness: current_step 6 with two context items: "Research decision" in progress
C15_Witness ==
    /\ TodosDone
    /\ ~todoIn.with_sections
    /\ todoIn.current_step = 6
    /\ NumContext = 2
    /\ todoOut.todos[8].content = <<"Research decision">>
    /\ todoOut.todos[8].status = "in_progress"

\* C16: with a section list, no item is "Generate section TODOs" or "Write section
\* files"; the supplied items stand unmodified, in order, between "Create section
\* index" and "Final status and cleanup"; every other table entry appears once, in
\* table order; the length is context items + 20 + supplied items
C16_SectionListReplacesPlaceholders ==
    (TodosDone /\ todoIn.with_sections) =>
        LET n == Len(todoOut.section_todos)
            before == TableIndex(<<"Create section index">>)
            after == TableIndex(<<"Final status and cleanup">>)
        IN  /\ Len(todoOut.todos) = NumContext + 20 + n
            /\ \A p \in DOMAIN todoOut.todos :
                   todoOut.todos[p].content \notin
                       {<<"Generate section TODOs">>, <<"Write section files">>}
            /\ \A i \in 1..before : IsTableEntry(NumContext + i, i)
            /\ \A j \in 1..n :
                   todoOut.todos[NumContext + before + j] = todoOut.section_todos[j]
            /\ \A i \in after..Len(TODO_ITEMS) :
                   IsTableEntry(NumContext + before + n + 1 + (i - after), i)
            /\ before = 18 /\ after = 21 /\ Len(TODO_ITEMS) = 22

\* C16 witness: two supplied items after "Create section index"
C16_Witness ==
    /\ TodosDone
    /\ todoIn.with_sections
    /\ NumContext = 0
    /\ todoIn.all_sections = <<S01z, S02a>>
    /\ todoOut.todos[18].content = <<"Create section index">>
    /\ todoOut.todos[19] = todoOut.section_todos[1]
    /\ todoOut.todos[20] = todoOut.section_todos[2]
    /\ todoOut.todos[21].content = <<"Final status and cleanup">>

\* C17: one item per element of all_sections, in order, with content "Read
\* section-splitting.md and write <section>", completed when the section is among the
\* completed ones and pending otherwise, never in_progress; a completed section that
\* is not in all_sections gives no item
C17_OneItemPerSection ==
    (todoOut.stage \in {"sectioned", "done"} /\ todoIn.with_sections) =>
        /\ Len(todoOut.section_todos) = Len(todoIn.all_sections)
        /\ \A i \in 1..Len(todoIn.all_sections) :
               LET item == todoOut.section_todos[i]
                   name == todoIn.all_sections[i]
                   written == \E k \in 1..Len(todoIn.completed_sections) :
                                  todoIn.completed_sections[k] = name
               IN  /\ item.content = <<"Read section-splitting.md and write ">> \o name
                   /\ item.activeForm = <<"Writing ">> \o name
                   /\ item.status = IF written THEN "completed" ELSE "pending"

\* C17 witness: one section written, one not, and a written file the manifest lacks
C17_Witness ==
    /\ todoOut.stage = "sectioned"
    /\ todoIn.all_sections = <<S01z, S02a>>
    /\ todoIn.completed_sections = <<S02a, F2x>>
    /\ todoOut.section_todos[1].status = "pending"
    /\ todoOut.section_todos[2].status = "completed"

\* C18: the context items come first, in the order plugin_root, planning_dir,
\* initial_file, context_check_enabled, one for each argument provided and none for
\* the others, each completed with content "key=value", the flag in lower case; no
\* later item is a context item
C18_ContextItemsFirst ==
    TodosDone =>
        /\ Len(todoOut.todos) >= NumContext
        /\ \A p \in 1..NumContext :
               /\ todoOut.todos[p].content =
                      <<ProvidedKeys[p], "=">> \o ValueText(ProvidedKeys[p])
               /\ todoOut.todos[p].status = "completed"
               /\ todoOut.todos[p].activeForm = <<"Context: ", ProvidedKeys[p]>>
        /\ \A p \in (NumContext + 1)..Len(todoOut.todos) :
               Len(todoOut.todos[p].activeForm) = 0
               \/ todoOut.todos[p].activeForm[1] # "Context: "

\* C18 witness: a flag of false beside a plugin root and an initial file
C18_Witness ==
    /\ TodosDone
    /\ todoIn.context_check_enabled = Some(FALSE)
    /\ todoIn.plugin_root = Some(PLUGIN_ROOT)
    /\ ~todoIn.planning_dir.given
    /\ todoIn.initial_file.given
    /\ todoOut.todos[3].content = <<"context_check_enabled", "=", "f", "a", "l", "s", "e">>
    /\ todoOut.todos[4].content = <<"Check context / offer compaction">>

----------------------------------------------------------------------------
(* check_section_progress as a function of the filesystem, under Spec *)

\* C19: a call leaves the filesystem as it was, and a call made when the outcome of
\* an earlier call on the same filesystem is in hand gives that outcome again,
\* whatever order the directory listing comes in
C19_SameFilesystemSameOutput ==
    [][CheckSectionProgress =>
          /\ fsVars' = fsVars
          /\ ran => progress' = progress]_vars

----------------------------------------------------------------------------
(* Properties of generate-section-todos.py, under SpecGenerate *)

\* the run ended by returning from main
GenReturned == genOut.done /\ ~genOut.raised

\* the section state of the filesystem as it is
SectionState ==
    check_section_progress(sectionsKind, indexExists, indexText,
                           CHOOSE l \in Listings(GlobSectionFiles(files)) : TRUE).state

\* C20: the entry point exits 1 with success false, a non-empty error and no todos
\* when the session config cannot be loaded or the section state is fresh or
\* invalid_index, and exits 0 with success true and todos when the state is has_index,
\* partial or complete; the exit code is 0 exactly when success is true
C20_ExitCodeFollowsSuccess ==
    GenReturned =>
        /\ (sessionConfig.status # "ok" \/ SectionState \in {"fresh", "invalid_index"}) =>
               /\ genOut.exit_code = 1
               /\ ~genOut.result.success
               /\ genOut.result.error.text # ""
               /\ genOut.result.todos = <<>>
        /\ (sessionConfig.status = "ok"
               /\ SectionState \in {"has_index", "partial", "complete"}) =>
               /\ genOut.exit_code = 0
               /\ genOut.result.success
               /\ genOut.result.todos # <<>>
        /\ genOut.exit_code = 0 <=> genOut.result.success

\* C20 witness: a stored config and an index.md without a valid manifest: exit 1
C20_Witness ==
    /\ GenReturned
    /\ sessionConfig.status = "ok"
    /\ indexExists /\ ~Manifest.success
    /\ genOut.exit_code = 1
    /\ genOut.result.state = "invalid_index"
    /\ genOut.result.error = GenError("Invalid index.md: ", ErrNotClosed)

----------------------------------------------------------------------------
(* Further properties of generate-section-todos.py, under SpecGenerate *)

\* the contents of the items printed
PrintedContents == {genOut.result.todos[p].content : p \in DOMAIN genOut.result.todos}

\* C22: in state complete the run succeeds with the list for current step 19 left
\* unexpanded: "Generate section TODOs" (in progress) and "Write section files" are in
\* it, no per-section item is, missing_sections is empty and total_sections is the
\* number of sections the manifest defines
C22_CompleteListUnexpanded ==
    (GenReturned /\ sessionConfig.status = "ok" /\ SectionState = "complete") =>
        /\ genOut.result.success
        /\ genOut.result.state = "complete"
        /\ <<"Generate section TODOs">> \in PrintedContents
        /\ <<"Write section files">> \in PrintedContents
        /\ \A c \in PrintedContents : c[1] # "Read section-splitting.md and write "
        /\ \A p \in DOMAIN genOut.result.todos :
               genOut.result.todos[p].content = <<"Generate section TODOs">> =>
                   genOut.result.todos[p].status = "in_progress"
        /\ genOut.result.missing_sections = <<>>
        /\ genOut.result.total_sections = Len(Manifest.sections)

\* C22 witness: the one section of the manifest written, beside a file the glob skips
C22_Witness ==
    /\ GenReturned
    /\ genOut.result.success
    /\ genOut.result.state = "complete"
    /\ genOut.result.total_sections = 1
    /\ files = {S01z, Fx}
    /\ Len(genOut.result.todos) = 26

----------------------------------------------------------------------------
(* Further properties of check_section_progress, under Spec *)

\* a record has been returned for the filesystem as it is
Returned == ran /\ ~progress.raised

\* the position of a section in defined_sections
DefinedAt(name) ==
    CHOOSE i \in DOMAIN progress.defined_sections : progress.defined_sections[i] = name

\* the defined sections that have no file
Unwritten == {progress.defined_sections[i] : i \in DOMAIN progress.defined_sections} \ files

\* C23: missing_sections holds the defined sections without a file, each once, in
\* the order of defined_sections, and next_section is its first element: the
\* lowest-numbered defined section without a file, or None when there is none
C23_MissingInDefinedOrder ==
    Returned =>
        /\ {progress.missing_sections[i] : i \in DOMAIN progress.missing_sections} = Unwritten
        /\ Len(progress.missing_sections) = Cardinality(Unwritten)
        /\ \A i, j \in DOMAIN progress.missing_sections :
               i < j => DefinedAt(progress.missing_sections[i])
                            < DefinedAt(progress.missing_sections[j])
        /\ Unwritten = {} => progress.next_section = <<>>
        /\ Unwritten # {} =>
               /\ progress.next_section = progress.missing_sections[1]
               /\ progress.next_section \in Unwritten
               /\ \A d \in Unwritten : NN(progress.next_section) <= NN(d)

\* C23 witness: section 10 written, sections 01 and 02 not: next is section 01
C23_Witness ==
    /\ Returned
    /\ Len(progress.defined_sections) = 3
    /\ files = {S10b}
    /\ progress.missing_sections = <<S01z, S02a>>
    /\ progress.next_section = S01z

\* the files named section-<digits>-*
DigitFiles ==
    {f \in files : Len(f) >= 3 /\ f[1] = "section-" /\ f[2] \in Digits
                     /\ \E k \in 3..Len(f) : f[k] = "-" /\ \A m \in 2..(k - 1) : f[m] \in Digits}

\* the integer value of the digit run of such a name
DigitsValue(f) == IntOf(SubSeq(f, 2, (CHOOSE k \in 3..Len(f) : f[k] = "-" /\ \A m \in 2..(k - 1) : f[m] \in Digits) - 1))

\* C24: every call on a sections/ directory returns as completed_sections the files
\* named section-<digits>-*, each once, in ascending order of the integer value of
\* the digits; other files change nothing
C24_CompletedAreDigitFilesSorted ==
    (ran /\ sectionsKind = "dir") =>
        /\ ~progress.raised
        /\ {progress.completed_sections[i] : i \in DOMAIN progress.completed_sections}
               = DigitFiles
        /\ Len(progress.completed_sections) = Cardinality(DigitFiles)
        /\ \A i, j \in DOMAIN progress.completed_sections :
               i < j => DigitsValue(progress.completed_sections[i])
                            <= DigitsValue(progress.completed_sections[j])

\* C29: with a valid manifest every completed section is a defined one, the
\* completed and the missing sections add up to the defined ones, and the done count
\* of the progress string is at most the total
C29_CompletedWithinDefined ==
    (Returned /\ progress.index_format.manifest_valid) =>
        /\ \A i \in DOMAIN progress.completed_sections :
               \E j \in DOMAIN progress.defined_sections :
                   progress.completed_sections[i] = progress.defined_sections[j]
        /\ Len(progress.completed_sections) + Len(progress.missing_sections)
               = Len(progress.defined_sections)
        /\ progress.progress[1] <= progress.progress[2]

----------------------------------------------------------------------------
(* Properties of setup-planning-session.py, under SpecSetup *)

\* the run ended by returning from main
SetupReturned == setupOut.done /\ ~setupOut.raised

\* the input is rejected or the session config cannot be had
SetupMustFail == specFile # "ok" \/ sessionConfig.status = "corrupt"

\* C21: every run prints one JSON object: exit 1 with success false, mode "error"
\* and an error string when the spec file is missing, a directory or empty or the
\* session config fails, and exit 0 with success true, a section_progress record and
\* a todos list in every other case, whatever sections/ holds
C21_AlwaysPrintsItsResult ==
    setupOut.done =>
        /\ setupOut.printed
        /\ SetupMustFail =>
               /\ setupOut.exit_code = 1
               /\ ~setupOut.result.success
               /\ setupOut.result.mode = "error"
               /\ setupOut.result.error # ""
        /\ ~SetupMustFail =>
               /\ setupOut.exit_code = 0
               /\ setupOut.result.success
               /\ setupOut.result.section_progress.state \in States
               /\ setupOut.result.todos # <<>>

\* any claude-*.md file, review, section file or index.md is there
AnyArtifact ==
    \/ artifacts.research \/ artifacts.interview \/ artifacts.spec \/ artifacts.plan
    \/ artifacts.integration_notes \/ artifacts.plan_tdd \/ artifacts.reviews # <<>>
    \/ SectionFiles # {} \/ indexExists

\* C25: on success the mode is "complete" exactly when the resume step is None,
\* "new" exactly when it is 6 and no artifact of any kind is there, and "resume"
\* otherwise; a directory with the spec file only gives "new" and step 6
C25_ModeFollowsResumeStep ==
    (SetupReturned /\ setupOut.result.success) =>
        /\ setupOut.result.mode \in {"complete", "new", "resume"}
        /\ setupOut.result.mode = "complete" <=> setupOut.result.resume.none
        /\ setupOut.result.mode = "new" <=>
               (~setupOut.result.resume.none /\ setupOut.result.resume.step = 6
                   /\ ~AnyArtifact)
        /\ ~AnyArtifact =>
               /\ setupOut.result.mode = "new"
               /\ ~setupOut.result.resume.none /\ setupOut.result.resume.step = 6

\* C25 witness: only an index.md without a manifest block there: step 6, mode resume
C25_Witness ==
    /\ SetupReturned
    /\ setupOut.result.success
    /\ indexExists /\ indexText = <<>> /\ files = {}
    /\ artifacts = NoArtifacts
    /\ setupOut.result.resume.step = 6
    /\ setupOut.result.mode = "resume"

\* the items of a list that are in progress
InProgress(todos) == {p \in DOMAIN todos : todos[p].status = "in_progress"}

\* the setup entry point's list has one item in progress, its current step being a
\* step of the table
SetupTodosOneInProgress ==
    (SetupReturned /\ setupOut.result.success) =>
        /\ Cardinality(InProgress(setupOut.result.todos)) = 1
        /\ \E i \in DOMAIN TODO_ITEMS :
               TODO_ITEMS[i].step = CurrentStep(setupOut.result.resume)

SetupTodosOneInProgress_Witness ==
    /\ SetupReturned
    /\ setupOut.result.success
    /\ setupOut.result.resume.none
    /\ setupOut.result.todos[Len(setupOut.result.todos)].status = "in_progress"

\* C30: a run that rejects its input leaves the session config as it was; a config
\* is written only by a run whose spec file passed the three checks
C30_RejectedInputWritesNothing ==
    [][RunSetup =>
          /\ specFile # "ok" => sessionConfig' = sessionConfig
          /\ sessionConfig' # sessionConfig =>
                 /\ specFile = "ok"
                 /\ sessionConfig.status = "absent"
                 /\ sessionConfig'.status = "ok"
                 /\ setupOut'.printed => setupOut'.result.config_created
          /\ fsVars' = fsVars /\ artifacts' = artifacts /\ specFile' = specFile]_vars

\* C30 witness: an empty spec file rejected, no session config stored
C30_Witness ==
    /\ setupOut.done
    /\ specFile = "empty"
    /\ setupOut.result.error = "Spec file is empty: {file_path}"
    /\ sessionConfig = NoSessionConfig

----------------------------------------------------------------------------
(* Properties of the TODO lists the entry points print *)

\* C28: the list generate-section-todos.py prints on success has exactly one item
\* in progress, in states has_index, partial and complete
C28_OneItemInProgress ==
    (GenReturned /\ genOut.result.success) =>
        Cardinality(InProgress(genOut.result.todos)) = 1

----------------------------------------------------------------------------
(* The resume step along the workflow, under SpecWorkflow *)

\* what infer_resume_step gives for the planning directory as it is
ResumeAt(art, kind, idxExists, idxText, stems) ==
    LET listing == CHOOSE l \in Listings(GlobSectionFiles(stems)) : TRUE
        section_progress == check_section_progress(kind, idxExists, idxText, listing)
    IN  [raised |-> section_progress.raised,
         resume |-> infer_resume_step(scan_planning_files(art, kind, idxExists, listing),
                                      section_progress)]

ResumeNow == ResumeAt(artifacts, sectionsKind, indexExists, indexText, files)

\* the planning directories one created artifact away from the one there is
OneMoreArtifact ==
    LET Dir(art, kind, idxExists, idxText, stems) ==
            [art |-> art, kind |-> kind, idxExists |-> idxExists, idxText |-> idxText,
             stems |-> stems]
    IN  {Dir([artifacts EXCEPT ![key] = TRUE], sectionsKind, indexExists, indexText, files) :
            key \in {k \in {"research", "interview", "spec", "plan", "integration_notes",
                            "plan_tdd"} : ~artifacts[k]}}
        \cup (IF artifacts.reviews = <<>>
              THEN {Dir([artifacts EXCEPT !.reviews = <<"iteration-1-gemini.md">>],
                        sectionsKind, indexExists, indexText, files)}
              ELSE {})
        \cup (IF sectionsKind = "absent"
              THEN {Dir(artifacts, "dir", indexExists, indexText, files)}
              ELSE {})
        \cup (IF sectionsKind = "dir" /\ ~indexExists
              THEN {Dir(artifacts, sectionsKind, TRUE, t, files) : t \in IndexTexts}
              ELSE {})
        \cup (IF sectionsKind = "dir"
              THEN {Dir(artifacts, sectionsKind, indexExists, indexText, files \cup {f}) :
                       f \in PlanningStems \ files}
              ELSE {})

\* a resume step as a height: None, the workflow complete, above every step
Height(resume) == IF resume.none THEN 23 ELSE resume.step

\* the artifacts there are the ones the workflow has written up to some point
InWorkflowOrder ==
    /\ artifacts.interview => artifacts.research
    /\ artifacts.spec => artifacts.interview
    /\ artifacts.plan => artifacts.spec
    /\ artifacts.reviews # <<>> => artifacts.plan
    /\ artifacts.integration_notes => artifacts.reviews # <<>>
    /\ artifacts.plan_tdd => artifacts.integration_notes
    /\ indexExists => artifacts.plan_tdd /\ Manifest.success
    /\ files # {} => indexExists
    /\ files \subseteq {Manifest.sections[i] : i \in 1..Len(Manifest.sections)}

\* the height the workflow has reached
WorkflowHeight ==
    IF ~artifacts.research THEN 6
    ELSE IF ~artifacts.interview THEN 8
    ELSE IF ~artifacts.spec THEN 10
    ELSE IF ~artifacts.plan THEN 11
    ELSE IF artifacts.reviews = <<>> THEN 12
    ELSE IF ~artifacts.integration_notes THEN 14
    ELSE IF ~artifacts.plan_tdd THEN 15
    ELSE IF ~indexExists THEN 17
    ELSE IF \E i \in 1..Len(Manifest.sections) : Manifest.sections[i] \notin files THEN 19
    ELSE 23

\* C26: one more artifact never lowers the resume step, None counting as the highest;
\* and with the artifacts written in workflow order the step inferred is 6, 8, 10, 11,
\* 12, 14, 15, 17, then 19 while a section is missing, then None
C26_ResumeStepNeverMovesBack ==
    /\ \A d \in OneMoreArtifact :
          LET after == ResumeAt(d.art, d.kind, d.idxExists, d.idxText, d.stems)
          IN  (~ResumeNow.raised /\ ~after.raised) =>
                  Height(after.resume) >= Height(ResumeNow.resume)
    /\ InferReturned =>
          /\ inferred.resume = ResumeNow.resume
          /\ InWorkflowOrder => Height(inferred.resume) = WorkflowHeight

\* C26 witness: every artifact written in order, the last section file included
C26_Witness ==
    /\ InferReturned
    /\ InWorkflowOrder
    /\ artifacts.plan_tdd
    /\ Len(Manifest.sections) = 1
    /\ files = {S01z}
    /\ inferred.resume.none

\* C27: from has_index with a valid manifest of N sections and no section file, writing
\* the file next_section names each time: the result after k writes has progress k/N and
\* is has_index for k = 0, partial for 0 < k < N, complete with no next section for
\* k = N; each write takes exactly the section written off missing_sections and adds one
\* to the done count; and every run ends complete
C27_WritingNextSectionReachesComplete ==
    /\ [](ran =>
             LET total == Len(progress.defined_sections)
                 written == Cardinality(files)
             IN  /\ ~progress.raised
                 /\ written <= total
                 /\ progress.progress = <<written, total>>
                 /\ progress.state = IF written = 0 THEN "has_index"
                                     ELSE IF written < total THEN "partial"
                                     ELSE "complete"
                 /\ progress.next_section = <<>> <=> written = total)
    /\ [][(~ran /\ ran' /\ files # {}) =>
              /\ progress.missing_sections # <<>>
              /\ Head(progress.missing_sections) = progress.next_section
              /\ progress'.missing_sections = Tail(progress.missing_sections)
              /\ progress.next_section \in files
              /\ progress'.progress[1] = progress.progress[1] + 1]_vars
    /\ <>[](ran /\ progress.state = "complete")

\* C27 witness: three sections defined, three writes made, the result complete
C27_Witness ==
    /\ ran
    /\ Len(progress.defined_sections) = 3
    /\ Cardinality(files) = 3
    /\ progress.state = "complete"
    /\ progress.next_section = <<>>
    /\ progress.progress = <<3, 3>>

====
